---- MODULE Spec2Model ----
(***************************************************************************)
(* Model of the tool-call core of mcp-mongo-server                         *)
(* (src/src/schemas/call.ts): the operation router, the policy guard, the  *)
(* argument normalizer and the eight operation handlers, running against   *)
(* an abstract data store.  Each request runs its synchronous part in one  *)
(* step and suspends at its data-store calls, which complete in any order. *)
(***************************************************************************)
EXTENDS Integers, Sequences, FiniteSets, TLC

(***************************************************************************)
(* Bounds of the model.                                                    *)
(***************************************************************************)
NumReq == 2        \* request slots that may be in flight at once
MaxWrites == 1     \* writes the data store applies in one run
MaxDepth == 2      \* nesting of the values inside a tree given to the normalizer
MaxOffset == 25    \* offsets given to encodeCursor
MaxItems == 5      \* length of the lists given to paginate
MaxPageSize == 3   \* page sizes given to paginate

(***************************************************************************)
(* JSON / JavaScript values.                                               *)
(***************************************************************************)
Undef == [t |-> "undefined"]
Null == [t |-> "null"]
B(b) == [t |-> "boolean", b |-> b]
N(n) == [t |-> "number", n |-> n]
S(s) == [t |-> "string", s |-> s]
A(elems) == [t |-> "array", a |-> elems]
\* an object keeps its entries in insertion order: a sequence of <<key, value>>
O(entries) == [t |-> "object", o |-> entries]
ObjectIdOf(hex) == [t |-> "objectid", hex |-> hex]
DateOf(str) == [t |-> "date", iso |-> str]

\* JavaScript truthiness (the ! and && and || operators)
Truthy(v) ==
  CASE v.t = "undefined" -> FALSE
    [] v.t = "null" -> FALSE
    [] v.t = "boolean" -> v.b
    [] v.t = "number" -> v.n # 0
    [] v.t = "string" -> v.s # ""
    [] OTHER -> TRUE

\* typeof v
TypeOf(v) ==
  CASE v.t \in {"null", "array", "object", "objectid", "date"} -> "object"
    [] OTHER -> v.t

\* Array.isArray(v)
IsArray(v) == v.t = "array"

\* a || b
OrElse(a, b) == IF Truthy(a) THEN a ELSE b

\* obj.key (undefined when the key is absent)
GetProp(obj, key) ==
  IF obj.t = "object" /\ \E i \in 1..Len(obj.o) : obj.o[i][1] = key
  THEN obj.o[CHOOSE i \in 1..Len(obj.o) : obj.o[i][1] = key][2]
  ELSE Undef

\* the decimal text of a natural number (array indexes used as keys)
RECURSIVE NumToString(_)
NumToString(n) ==
  IF n < 10 THEN SubSeq("0123456789", n + 1, n + 1)
  ELSE NumToString(n \div 10) \o SubSeq("0123456789", (n % 10) + 1, (n % 10) + 1)

\* Object.entries(v): own enumerable entries; it throws on null and undefined
CanEntries(v) == v.t \notin {"null", "undefined"}
ObjectEntries(v) ==
  CASE v.t = "object" -> v.o
    [] v.t = "array" -> [i \in 1..Len(v.a) |-> <<NumToString(i - 1), v.a[i]>>]
    [] v.t = "string" -> [i \in 1..Len(v.s) |-> <<NumToString(i - 1), S(SubSeq(v.s, i, i))>>]
    [] OTHER -> <<>>

\* Object.keys(obj)
ObjectKeys(obj) == [i \in 1..Len(ObjectEntries(obj)) |-> ObjectEntries(obj)[i][1]]

\* obj[key] = value on an ordinary object (a new key goes last)
SetProp(obj, key, value) ==
  IF \E i \in 1..Len(obj.o) : obj.o[i][1] = key
  THEN O([i \in 1..Len(obj.o) |-> IF obj.o[i][1] = key THEN <<key, value>> ELSE obj.o[i]])
  ELSE O(Append(obj.o, <<key, value>>))

\* Object.assign(target, source)
RECURSIVE AssignFrom(_, _, _)
AssignFrom(target, entries, i) ==
  IF i > Len(entries) THEN target
  ELSE AssignFrom(SetProp(target, entries[i][1], entries[i][2]), entries, i + 1)
ObjectAssign(target, source) == AssignFrom(target, ObjectEntries(source), 1)

\* String.prototype.startsWith / endsWith / substring / toLowerCase
StartsWith(s, p) == Len(s) >= Len(p) /\ SubSeq(s, 1, Len(p)) = p
EndsWith(s, p) == Len(s) >= Len(p) /\ SubSeq(s, Len(s) - Len(p) + 1, Len(s)) = p
Clamp(n, lo, hi) == IF n < lo THEN lo ELSE IF n > hi THEN hi ELSE n
Between(s, f, e) ==
  IF f = e THEN "" ELSE IF f < e THEN SubSeq(s, f + 1, e) ELSE SubSeq(s, e + 1, f)
Substring(s, from, to) == Between(s, Clamp(from, 0, Len(s)), Clamp(to, 0, Len(s)))
CharAt(s, i) == SubSeq(s, i, i)
Uppers == "ABCDEFGHIJKLMNOPQRSTUVWXYZ"
Lowers == "abcdefghijklmnopqrstuvwxyz"
LowerChar(c) ==
  IF \E i \in 1..26 : CharAt(Uppers, i) = c
  THEN CharAt(Lowers, CHOOSE i \in 1..26 : CharAt(Uppers, i) = c)
  ELSE c
RECURSIVE ToLowerCase(_)
ToLowerCase(s) ==
  IF s = "" THEN ""
  ELSE LowerChar(CharAt(s, 1)) \o ToLowerCase(Substring(s, 1, Len(s)))

Digits == {"0", "1", "2", "3", "4", "5", "6", "7", "8", "9"}
HexChars == Digits \cup {"a", "b", "c", "d", "e", "f", "A", "B", "C", "D", "E", "F"}
AllIn(s, from, to, chars) == \A i \in from..to : CharAt(s, i) \in chars

\* /^[0-9a-fA-F]{24}$/
isObjectIdString(str) == Len(str) = 24 /\ AllIn(str, 1, 24, HexChars)

\* /^\d{4}-\d{2}-\d{2}T\d{2}:\d{2}:\d{2}(\.\d{1,3})?Z$/
isISODateString(str) ==
  /\ Len(str) \in {20, 22, 23, 24}
  /\ AllIn(str, 1, 4, Digits) /\ CharAt(str, 5) = "-"
  /\ AllIn(str, 6, 7, Digits) /\ CharAt(str, 8) = "-"
  /\ AllIn(str, 9, 10, Digits) /\ CharAt(str, 11) = "T"
  /\ AllIn(str, 12, 13, Digits) /\ CharAt(str, 14) = ":"
  /\ AllIn(str, 15, 16, Digits) /\ CharAt(str, 17) = ":"
  /\ AllIn(str, 18, 19, Digits)
  /\ CharAt(str, Len(str)) = "Z"
  /\ Len(str) > 20 => (CharAt(str, 20) = "." /\ AllIn(str, 21, Len(str) - 1, Digits))

IsIdName(lowerFieldName) ==
  \/ lowerFieldName = "_id"
  \/ lowerFieldName = "id"
  \/ EndsWith(lowerFieldName, "id")
  \/ EndsWith(lowerFieldName, "_id")
\* a variant that compares the name as it is written
isObjectIdField_CaseSensitive(fieldName) == IsIdName(fieldName)
isObjectIdField(fieldName) == IsIdName(ToLowerCase(fieldName))

\* the "ISODate(...)" branch shared by object values and array items
IsWrappedDate(value) == StartsWith(value, "ISODate(") /\ EndsWith(value, ")")
DateOrValue(value, dateString) ==
  IF isISODateString(dateString) THEN DateOf(dateString) ELSE S(value)
WrappedDate(value) == DateOrValue(value, Substring(value, 8, Len(value) - 2))

\* one element of an array value (the callbacks of value.map)
NormalizeItem(item, key, objectIdMode) ==
  IF item.t # "string" THEN item
  ELSE IF /\ objectIdMode # "none"
          /\ isObjectIdString(item.s)
          /\ (objectIdMode = "force" \/ (objectIdMode = "auto" /\ isObjectIdField(key)))
       THEN ObjectIdOf(item.s)
  ELSE IF isISODateString(item.s) THEN DateOf(item.s)
  ELSE IF IsWrappedDate(item.s) THEN WrappedDate(item.s)
  ELSE item

\* result = {} followed by result[key] = value for each entry, keys being
\* distinct: the assignment to the key "__proto__" goes to the accessor of
\* Object.prototype and creates no own property
OwnEntries(assigned) == O(SelectSeq(assigned, LAMBDA e : e[1] # "__proto__"))

RECURSIVE processObjectIdInFilter(_, _)
processObjectIdInFilter(filter, objectIdMode) ==
  LET Entry(key, value) ==
        IF value.t = "string" /\ objectIdMode # "none" /\ isObjectIdString(value.s)
        THEN IF objectIdMode = "force" \/ (objectIdMode = "auto" /\ isObjectIdField(key))
             THEN ObjectIdOf(value.s)
             ELSE value
        ELSE IF value.t = "string" /\ isISODateString(value.s) THEN DateOf(value.s)
        ELSE IF value.t = "string" /\ IsWrappedDate(value.s) THEN WrappedDate(value.s)
        ELSE IF value.t = "array"
             THEN A([i \in 1..Len(value.a) |-> NormalizeItem(value.a[i], key, objectIdMode)])
        ELSE IF value.t = "object" THEN processObjectIdInFilter(value, objectIdMode)
        ELSE value
      entries == ObjectEntries(filter)
  IN  OwnEntries([i \in 1..Len(entries) |->
                    <<entries[i][1], Entry(entries[i][1], entries[i][2])>>])
(***************************************************************************)
(* JSON.parse on the JSON texts the requests carry: null, true, false,     *)
(* integers, strings without escapes, arrays, objects and blanks.  The     *)
(* parser is a pushdown automaton: stack holds the arrays and objects      *)
(* that are still open.  The result is [ok, v]; ok is FALSE where          *)
(* JSON.parse throws.                                                      *)
(***************************************************************************)
ParseFail == [ok |-> FALSE, v |-> Undef]
Parsed(v) == [ok |-> TRUE, v |-> v]
At(s, i) == IF i >= 1 /\ i <= Len(s) THEN SubSeq(s, i, i) ELSE ""
Keyword(s, i, w) == i + Len(w) - 1 <= Len(s) /\ SubSeq(s, i, i + Len(w) - 1) = w

RECURSIVE SkipWs(_, _)
SkipWs(s, i) == IF At(s, i) = " " THEN SkipWs(s, i + 1) ELSE i

RECURSIVE DigitsEnd(_, _)
DigitsEnd(s, i) == IF At(s, i) \in Digits THEN DigitsEnd(s, i + 1) ELSE i

RECURSIVE DigitsValue(_, _, _, _)
DigitsValue(s, i, end, acc) ==
  IF i >= end THEN acc
  ELSE DigitsValue(s, i + 1, end,
         acc * 10 + (CHOOSE d \in 0..9 : SubSeq("0123456789", d + 1, d + 1) = At(s, i)))

RECURSIVE QuoteEnd(_, _)
QuoteEnd(s, i) ==
  IF i > Len(s) THEN 0 ELSE IF At(s, i) = "\"" THEN i ELSE QuoteEnd(s, i + 1)

\* a number starts at i: the position after it (0 when it is malformed)
NumberEnd(s, i) ==
  LET from == IF At(s, i) = "-" THEN i + 1 ELSE i
      end == DigitsEnd(s, from)
  IN  IF end = from \/ (At(s, from) = "0" /\ end > from + 1) THEN 0 ELSE end
NumberValue(s, i, end) ==
  IF At(s, i) = "-" THEN 0 - DigitsValue(s, i + 1, end, 0) ELSE DigitsValue(s, i, end, 0)

Frame(kind, acc, key) == [kind |-> kind, acc |-> acc, key |-> key]
Top(stack) == stack[Len(stack)]
Pop(stack) == SubSeq(stack, 1, Len(stack) - 1)
WithTop(stack, frame) == [stack EXCEPT ![Len(stack)] = frame]

\* mode "value": a value starts at i; mode "key": a member key starts at i;
\* mode "after": the value v ended before i
RECURSIVE ParseRun(_, _, _, _, _)
ParseRun(s, i0, mode, v0, stack0) ==
  CHOOSE result \in
    {LET ch == At(s, i)
         inner == SkipWs(s, i + 1)
         close == QuoteEnd(s, i + 1)
         numEnd == NumberEnd(s, i)
     IN  CASE mode = "value" /\ Keyword(s, i, "null") -> ParseRun(s, i + 4, "after", Null, stack)
            [] mode = "value" /\ Keyword(s, i, "true") ->
                 ParseRun(s, i + 4, "after", B(TRUE), stack)
            [] mode = "value" /\ Keyword(s, i, "false") ->
                 ParseRun(s, i + 5, "after", B(FALSE), stack)
            [] mode = "value" /\ ch = "\"" /\ close # 0 ->
                 ParseRun(s, close + 1, "after", S(Substring(s, i, close - 1)), stack)
            [] mode = "value" /\ (ch = "-" \/ ch \in Digits) /\ numEnd # 0 ->
                 ParseRun(s, numEnd, "after", N(NumberValue(s, i, numEnd)), stack)
            [] mode = "value" /\ ch = "[" /\ At(s, inner) = "]" ->
                 ParseRun(s, inner + 1, "after", A(<<>>), stack)
            [] mode = "value" /\ ch = "[" /\ At(s, inner) # "]" ->
                 ParseRun(s, i + 1, "value", Undef, Append(stack, Frame("array", A(<<>>), "")))
            [] mode = "value" /\ ch = "{" /\ At(s, inner) = "}" ->
                 ParseRun(s, inner + 1, "after", O(<<>>), stack)
            [] mode = "value" /\ ch = "{" /\ At(s, inner) # "}" ->
                 ParseRun(s, i + 1, "key", Undef, Append(stack, Frame("object", O(<<>>), "")))
            [] mode = "key" /\ ch = "\"" /\ close # 0 /\ At(s, SkipWs(s, close + 1)) = ":" ->
                 ParseRun(s, SkipWs(s, close + 1) + 1, "value", Undef,
                          WithTop(stack, Frame("object", Top(stack).acc,
                                               Substring(s, i, close - 1))))
            [] mode = "after" /\ stack = <<>> /\ i = Len(s) + 1 -> Parsed(v)
            [] mode = "after" /\ stack # <<>> /\ Top(stack).kind = "array" /\ ch = "," ->
                 ParseRun(s, i + 1, "value", Undef,
                          WithTop(stack, Frame("array", A(Append(Top(stack).acc.a, v)), "")))
            [] mode = "after" /\ stack # <<>> /\ Top(stack).kind = "array" /\ ch = "]" ->
                 ParseRun(s, i + 1, "after", A(Append(Top(stack).acc.a, v)), Pop(stack))
            [] mode = "after" /\ stack # <<>> /\ Top(stack).kind = "object" /\ ch = "," ->
                 ParseRun(s, i + 1, "key", Undef,
                          WithTop(stack, Frame("object",
                                               SetProp(Top(stack).acc, Top(stack).key, v), "")))
            [] mode = "after" /\ stack # <<>> /\ Top(stack).kind = "object" /\ ch = "}" ->
                 ParseRun(s, i + 1, "after", SetProp(Top(stack).acc, Top(stack).key, v),
                          Pop(stack))
            [] OTHER -> ParseFail :
       i \in {SkipWs(s, i0)}, v \in {v0}, stack \in {stack0}} : TRUE

\* JSON.parse(text): the whole text must be one value
JSONParse(text) == ParseRun(text, 1, "value", Undef, <<>>)

(***************************************************************************)
(* Errors.  The code throws Error objects that carry only a message; kind  *)
(* names the throw site, in the vocabulary of the specification.           *)
(***************************************************************************)
NoError == [kind |-> "none", message |-> ""]
Err(kind, message) == [kind |-> kind, message |-> message]

COLLECTION_OPERATIONS == {"query", "aggregate", "update", "insert", "createIndex", "count"}
WRITE_OPERATIONS == {"update", "insert", "createIndex"}
validOperations ==
  {"query", "aggregate", "update", "serverInfo", "insert", "createIndex", "count",
   "listCollections"}
validUpdateOperators ==
  {"$set", "$unset", "$inc", "$push", "$pull", "$addToSet", "$pop", "$rename", "$mul"}

validateOperation(operation) ==
  IF operation \notin validOperations
  THEN Err("UnknownOperation", "Unknown operation: " \o operation)
  ELSE NoError

\* a variant that leaves createIndex out of the write operations
checkReadOnlyMode_SkipsCreateIndex(operation, readOnly) ==
  IF readOnly /\ operation \in {"update", "insert"}
  THEN Err("ReadOnlyViolation",
           "ReadonlyError: Operation '" \o operation \o "' is not allowed in read-only mode")
  ELSE NoError
checkReadOnlyMode(operation, readOnly) ==
  IF readOnly /\ operation \in WRITE_OPERATIONS
  THEN Err("ReadOnlyViolation",
           "ReadonlyError: Operation '" \o operation \o "' is not allowed in read-only mode")
  ELSE NoError

\* a variant without the check of the reserved prefix
validateCollection_AllowsSystem(collectionName) ==
  IF ~Truthy(collectionName)
  THEN Err("ForbiddenCollection", "Collection name cannot be empty")
  ELSE NoError
\* collection is the handle db.collection(name) returned: collectionName = name
validateCollection(collectionName) ==
  IF ~Truthy(collectionName)
  THEN Err("ForbiddenCollection", "Collection name cannot be empty")
  ELSE IF StartsWith(collectionName.s, "system.")
  THEN Err("ForbiddenCollection", "Access to system collections is not allowed")
  ELSE NoError

parseSort(sort) ==
  IF ~Truthy(sort) THEN Null
  ELSE IF TypeOf(sort) # "object" \/ sort.t = "null" \/ IsArray(sort) THEN Null
  ELSE LET validSort ==
             SelectSeq(ObjectEntries(sort),
                       LAMBDA e : e[2].t = "number" /\ (e[2].n = 1 \/ e[2].n = -1))
       IN  IF Len(validSort) > 0 THEN O(validSort) ELSE Null

\* the result is [error, v]: v is the filter when error is NoError
FilterError(message) == [error |-> Err("InvalidArgument", message), v |-> Undef]
\* the object a filter is read as: source is [ok, v], ok FALSE where the
\* try block of parseFilter threw before processObjectIdInFilter returned
FilterFrom(source, objectIdMode) ==
  IF source.ok /\ CanEntries(source.v)
  THEN [error |-> NoError, v |-> processObjectIdInFilter(source.v, objectIdMode)]
  ELSE FilterError("Invalid filter format: must be a valid JSON object")
\* a variant that reads an array as a plain object
parseFilter_AcceptsArrays(filter, objectIdMode) ==
  IF ~Truthy(filter) THEN [error |-> NoError, v |-> O(<<>>)]
  ELSE IF filter.t = "string" \/ (TypeOf(filter) = "object" /\ filter.t # "null")
  THEN FilterFrom(IF filter.t = "string" THEN JSONParse(filter.s) ELSE Parsed(filter),
                  objectIdMode)
  ELSE FilterError("Query filter must be a plain object or ObjectId")
parseFilter(filter, objectIdMode) ==
  IF ~Truthy(filter) THEN [error |-> NoError, v |-> O(<<>>)]
  ELSE IF filter.t = "string" \/ (TypeOf(filter) = "object" /\ filter.t # "null" /\ ~IsArray(filter))
  THEN FilterFrom(IF filter.t = "string" THEN JSONParse(filter.s) ELSE Parsed(filter),
                  objectIdMode)
  ELSE FilterError("Query filter must be a plain object or ObjectId")

\* a variant that reports the data store's message alone
handleError_NoContext(e, operation, collectionName) ==
  IF e.isError THEN Err("GatewayFailure", e.message) ELSE Err("GatewayFailure", "Unknown error")
\* an error the data store rejects a call with: e is [isError, name, message,
\* writeErrors, result]; isError is `error instanceof Error`
handleError(e, operation, collectionName) ==
  LET context == IF Truthy(collectionName) THEN "collection " \o collectionName.s
                 ELSE "operation"
  IN  IF e.isError
      THEN Err("GatewayFailure",
               "Failed to " \o operation \o " " \o context \o ": " \o e.message)
      ELSE Err("GatewayFailure",
               "Failed to " \o operation \o " " \o context \o ": Unknown error")

(***************************************************************************)
(* The handlers up to their first await: the validation of the arguments   *)
(* and the data-store calls issued.  The result is [error, calls].         *)
(***************************************************************************)
Call(method, coll, params) ==
  [method |-> method, coll |-> coll, params |-> params, status |-> "pending",
   result |-> Undef]
Thrown(error) == [error |-> error, calls |-> <<>>]
Issued(calls) == [error |-> NoError, calls |-> calls]

\* a variant that counts the documents of an explained query too
QueryCalls_CountsExplained(collection, queryFilter, explain, options) ==
  IF queryFilter.error # NoError THEN Thrown(queryFilter.error)
  ELSE IF Truthy(explain)
  THEN Issued(<<Call("countDocuments", collection,
                     [filter |-> queryFilter.v, options |-> Undef]),
                Call("find.explain", collection,
                     [filter |-> queryFilter.v, options |-> options,
                      verbosity |-> explain])>>)
  ELSE Issued(<<Call("countDocuments", collection,
                     [filter |-> queryFilter.v, options |-> Undef]),
                Call("find", collection, [filter |-> queryFilter.v, options |-> options])>>)
\* handleQuery once its filter is parsed
QueryCalls(collection, queryFilter, explain, options) ==
  IF queryFilter.error # NoError THEN Thrown(queryFilter.error)
  ELSE IF Truthy(explain)
  THEN Issued(<<Call("find.explain", collection,
                     [filter |-> queryFilter.v, options |-> options,
                      verbosity |-> explain])>>)
  ELSE Issued(<<Call("countDocuments", collection,
                     [filter |-> queryFilter.v, options |-> Undef]),
                Call("find", collection, [filter |-> queryFilter.v, options |-> options])>>)
handleQuerySync(collection, args, objectIdMode) ==
  QueryCalls(collection, parseFilter(GetProp(args, "filter"), objectIdMode),
             GetProp(args, "explain"),
             [projection |-> GetProp(args, "projection"),
              limit |-> OrElse(GetProp(args, "limit"), N(10)),
              skip |-> OrElse(GetProp(args, "skip"), N(0)),
              sort |-> GetProp(args, "sort")])

handleAggregateSync(collection, args, objectIdMode) ==
  LET pipeline == GetProp(args, "pipeline")
      explain == GetProp(args, "explain")
      processedPipeline ==
        A([i \in 1..Len(pipeline.a) |->
             IF TypeOf(pipeline.a[i]) = "object" /\ pipeline.a[i].t # "null"
             THEN processObjectIdInFilter(pipeline.a[i], objectIdMode)
             ELSE pipeline.a[i]])
  IN  IF ~IsArray(pipeline) THEN Thrown(Err("InvalidArgument", "Pipeline must be an array"))
      ELSE Issued(<<Call("aggregate", collection,
                         [pipeline |-> processedPipeline,
                          explain |-> IF Truthy(explain) THEN explain ELSE Undef])>>)

\* a variant that accepts any key as an update operator
HasValidOperator_AnyKey(keys) == Len(keys) > 0
HasValidOperator(keys) == \E i \in 1..Len(keys) : keys[i] \in validUpdateOperators
\* a variant that calls updateOne whatever multi is
UpdateCalls_AlwaysOne(collection, queryFilter, processedUpdate, options) ==
  IF queryFilter.error # NoError THEN Thrown(queryFilter.error)
  ELSE IF \/ ~Truthy(processedUpdate)
          \/ TypeOf(processedUpdate) # "object"
          \/ IsArray(processedUpdate)
  THEN Thrown(Err("InvalidArgument", "Update must be a valid MongoDB update document"))
  ELSE IF ~HasValidOperator(ObjectKeys(processedUpdate))
  THEN Thrown(Err("InvalidArgument",
         "Update must include at least one valid update operator ($set, $unset, etc.)"))
  ELSE Issued(<<Call("updateOne", collection,
                     [filter |-> queryFilter.v, update |-> processedUpdate,
                      options |-> options])>>)
\* handleUpdate once its filter is parsed and its update document processed
UpdateCalls(collection, queryFilter, processedUpdate, options) ==
  IF queryFilter.error # NoError THEN Thrown(queryFilter.error)
  ELSE IF \/ ~Truthy(processedUpdate)
          \/ TypeOf(processedUpdate) # "object"
          \/ IsArray(processedUpdate)
  THEN Thrown(Err("InvalidArgument", "Update must be a valid MongoDB update document"))
  ELSE IF ~HasValidOperator(ObjectKeys(processedUpdate))
  THEN Thrown(Err("InvalidArgument",
         "Update must include at least one valid update operator ($set, $unset, etc.)"))
  ELSE Issued(<<Call(IF options.multi THEN "updateMany" ELSE "updateOne", collection,
                     [filter |-> queryFilter.v, update |-> processedUpdate,
                      options |-> options])>>)
ProcessedUpdate(update, objectIdMode) ==
  IF Truthy(update) /\ TypeOf(update) = "object" /\ ~IsArray(update)
  THEN processObjectIdInFilter(update, objectIdMode)
  ELSE update
handleUpdateSync(collection, args, objectIdMode) ==
  UpdateCalls(collection, parseFilter(GetProp(args, "filter"), objectIdMode),
              ProcessedUpdate(GetProp(args, "update"), objectIdMode),
              [upsert |-> Truthy(GetProp(args, "upsert")),
               multi |-> Truthy(GetProp(args, "multi"))])

handleServerInfoSync(args) ==
  Issued(<<Call("command:buildInfo", Undef, [command |-> "buildInfo"])>>)

handleInsertSync(collection, args, objectIdMode) ==
  LET documents == GetProp(args, "documents")
      ordered == GetProp(args, "ordered")
      IsDocument(doc) == Truthy(doc) /\ TypeOf(doc) = "object" /\ ~IsArray(doc)
      processedDocuments ==
        [i \in 1..Len(documents.a) |-> processObjectIdInFilter(documents.a[i], objectIdMode)]
      options == [ordered |-> ordered # B(FALSE),
                  writeConcern |-> GetProp(args, "writeConcern"),
                  bypassDocumentValidation |-> GetProp(args, "bypassDocumentValidation")]
  IN  IF ~IsArray(documents) THEN Thrown(Err("InvalidArgument", "Documents must be an array"))
      ELSE IF Len(documents.a) = 0
      THEN Thrown(Err("InvalidArgument", "Documents array cannot be empty"))
      ELSE IF ~\A i \in 1..Len(documents.a) : IsDocument(documents.a[i])
      THEN Thrown(Err("InvalidArgument",
                      "Each document must be a valid MongoDB document object"))
      ELSE Issued(<<Call("insertMany", collection,
                         [documents |-> processedDocuments, options |-> options])>>)

\* a variant that sends the indexes to the data store before it validates
\* writeConcern and commitQuorum
handleCreateIndexSync_ValidatesLate(collection, args, objectIdMode) ==
  IF ~IsArray(GetProp(args, "indexes")) \/ Len(GetProp(args, "indexes").a) = 0
  THEN Thrown(Err("InvalidArgument", "Indexes must be a non-empty array"))
  ELSE Issued(<<Call("createIndexes", collection,
                     [indexes |-> GetProp(args, "indexes").a,
                      options |-> [commitQuorum |-> Undef]])>>)
handleCreateIndexSync(collection, args, objectIdMode) ==
  LET indexes == GetProp(args, "indexes")
      commitQuorum == GetProp(args, "commitQuorum")
      writeConcern == GetProp(args, "writeConcern")
      processedIndexes ==
        [i \in 1..Len(indexes.a) |->
           IF Truthy(indexes.a[i]) /\ TypeOf(indexes.a[i]) = "object"
           THEN processObjectIdInFilter(indexes.a[i], objectIdMode)
           ELSE indexes.a[i]]
      indexOptions ==
        [commitQuorum |-> IF TypeOf(commitQuorum) = "number" THEN commitQuorum ELSE Undef]
  IN  IF ~IsArray(indexes) \/ Len(indexes.a) = 0
      THEN Thrown(Err("InvalidArgument", "Indexes must be a non-empty array"))
      ELSE IF Truthy(writeConcern) /\ (TypeOf(writeConcern) # "object" \/ IsArray(writeConcern))
      THEN Thrown(Err("InvalidArgument",
                      "Write concern must be a valid MongoDB write concern object"))
      ELSE IF /\ Truthy(commitQuorum)
              /\ TypeOf(commitQuorum) # "string"
              /\ TypeOf(commitQuorum) # "number"
      THEN Thrown(Err("InvalidArgument", "Commit quorum must be a string or number"))
      ELSE Issued(<<Call("createIndexes", collection,
                         [indexes |-> processedIndexes, options |-> indexOptions])>>)

\* handleCount once its query is parsed
CountCalls(collection, countQuery, options) ==
  IF countQuery.error # NoError THEN Thrown(countQuery.error)
  ELSE Issued(<<Call("countDocuments", collection,
                     [filter |-> countQuery.v, options |-> options])>>)
NumberOrAbsent(v) == IF TypeOf(v) = "number" THEN v ELSE Undef
ObjectOrAbsent(v) == IF TypeOf(v) = "object" /\ v.t # "null" THEN v ELSE Undef
CountOptions(args) ==
  O(SelectSeq(<< <<"limit", NumberOrAbsent(GetProp(args, "limit"))>>,
                 <<"skip", NumberOrAbsent(GetProp(args, "skip"))>>,
                 <<"hint", ObjectOrAbsent(GetProp(args, "hint"))>>,
                 <<"readConcern", ObjectOrAbsent(GetProp(args, "readConcern"))>>,
                 <<"maxTimeMS", NumberOrAbsent(GetProp(args, "maxTimeMS"))>>,
                 <<"collation", ObjectOrAbsent(GetProp(args, "collation"))>> >>,
              LAMBDA e : e[2] # Undef))
handleCountSync(collection, args, objectIdMode) ==
  CountCalls(collection, parseFilter(GetProp(args, "query"), objectIdMode),
             CountOptions(args))

handleListCollectionsSync(args, objectIdMode) ==
  LET filter == GetProp(args, "filter")
      processedFilter ==
        IF Truthy(filter) /\ TypeOf(filter) = "object"
        THEN processObjectIdInFilter(filter, objectIdMode)
        ELSE filter
      options == IF Truthy(processedFilter) THEN O(<< <<"filter", processedFilter>> >>)
                 ELSE O(<<>>)
  IN  Issued(<<Call("listCollections", Undef, [options |-> options])>>)
(***************************************************************************)
(* The router: handleCallToolRequest up to the handler's first await.      *)
(* steps lists the checks that ran, in order; handle is the collection     *)
(* handle db.collection resolved (Undef when none was).                    *)
(***************************************************************************)
ModeName(v) == IF v.t = "string" THEN v.s ELSE "?"

\* const { name, arguments: args = {} } = request.params
ArgumentsOf(request) ==
  IF request.arguments = Undef THEN O(<<>>) ELSE request.arguments

\* a variant that converts every request in auto mode
ObjectIdModeOf_AlwaysAuto(request) == "auto"
\* args.objectIdMode || "auto"
ObjectIdModeOf(request) ==
  ModeName(OrElse(GetProp(ArgumentsOf(request), "objectIdMode"), S("auto")))

\* the argument bag the handlers receive: args.sort is replaced by
\* parseSort(args.sort), then Object.assign(args, filteredArgs) copies every
\* entry but objectIdMode back from the bag as it was received
WithParsedSort(args) ==
  IF Truthy(GetProp(args, "sort")) THEN SetProp(args, "sort", parseSort(GetProp(args, "sort")))
  ELSE args
FilteredArgs(args) == O(SelectSeq(ObjectEntries(args), LAMBDA e : e[1] # "objectIdMode"))
HandlerArgs(request) ==
  ObjectAssign(WithParsedSort(ArgumentsOf(request)), FilteredArgs(ArgumentsOf(request)))

\* the switch of handleCallToolRequest
Dispatch(operation, collection, args, objectIdMode) ==
  CASE operation = "query" -> handleQuerySync(collection, args, objectIdMode)
    [] operation = "aggregate" -> handleAggregateSync(collection, args, objectIdMode)
    [] operation = "update" -> handleUpdateSync(collection, args, objectIdMode)
    [] operation = "serverInfo" -> handleServerInfoSync(args)
    [] operation = "insert" -> handleInsertSync(collection, args, objectIdMode)
    [] operation = "createIndex" -> handleCreateIndexSync(collection, args, objectIdMode)
    [] operation = "count" -> handleCountSync(collection, args, objectIdMode)
    [] operation = "listCollections" -> handleListCollectionsSync(args, objectIdMode)
    [] OTHER -> Thrown(Err("UnknownOperation", "Unknown operation: " \o operation))

\* a variant that resolves the collection handle before it validates the
\* operation name
Guard_ResolvesFirst(operation, collectionName, readOnly) ==
  IF validateOperation(operation) # NoError
  THEN [error |-> validateOperation(operation), steps |-> <<"validateOperation">>,
        handle |-> collectionName]
  ELSE IF checkReadOnlyMode(operation, readOnly) # NoError
  THEN [error |-> checkReadOnlyMode(operation, readOnly),
        steps |-> <<"validateOperation", "checkReadOnlyMode">>, handle |-> collectionName]
  ELSE IF operation \notin COLLECTION_OPERATIONS
  THEN [error |-> NoError, steps |-> <<"validateOperation", "checkReadOnlyMode">>,
        handle |-> Undef]
  ELSE IF ~Truthy(collectionName)
  THEN [error |-> Err("MissingCollection",
                      "Collection name is required for '" \o operation \o "' operation"),
        steps |-> <<"validateOperation", "checkReadOnlyMode", "requireCollection">>,
        handle |-> Undef]
  ELSE [error |-> validateCollection(collectionName),
        steps |-> <<"validateOperation", "checkReadOnlyMode", "requireCollection",
                    "validateCollection">>,
        handle |-> collectionName]
\* a variant that checks the collection before the read-only policy
Guard_CollectionFirst(operation, collectionName, readOnly) ==
  IF validateOperation(operation) # NoError
  THEN [error |-> validateOperation(operation), steps |-> <<"validateOperation">>,
        handle |-> Undef]
  ELSE IF operation \in COLLECTION_OPERATIONS /\ ~Truthy(collectionName)
  THEN [error |-> Err("MissingCollection",
                      "Collection name is required for '" \o operation \o "' operation"),
        steps |-> <<"validateOperation", "requireCollection">>, handle |-> Undef]
  ELSE IF operation \in COLLECTION_OPERATIONS /\ validateCollection(collectionName) # NoError
  THEN [error |-> validateCollection(collectionName),
        steps |-> <<"validateOperation", "requireCollection", "validateCollection">>,
        handle |-> collectionName]
  ELSE [error |-> checkReadOnlyMode(operation, readOnly),
        steps |-> IF operation \in COLLECTION_OPERATIONS
                  THEN <<"validateOperation", "requireCollection", "validateCollection",
                         "checkReadOnlyMode">>
                  ELSE <<"validateOperation", "checkReadOnlyMode">>,
        handle |-> IF operation \in COLLECTION_OPERATIONS THEN collectionName ELSE Undef]
\* the checks before the switch: [error, steps, handle]
Passed(steps, handle) == [error |-> NoError, steps |-> steps, handle |-> handle]
Stopped(error, steps, handle) == [error |-> error, steps |-> steps, handle |-> handle]
Guard(operation, collectionName, readOnly) ==
  IF validateOperation(operation) # NoError
  THEN Stopped(validateOperation(operation), <<"validateOperation">>, Undef)
  ELSE IF checkReadOnlyMode(operation, readOnly) # NoError
  THEN Stopped(checkReadOnlyMode(operation, readOnly),
               <<"validateOperation", "checkReadOnlyMode">>, Undef)
  ELSE IF operation \notin COLLECTION_OPERATIONS
  THEN Passed(<<"validateOperation", "checkReadOnlyMode">>, Undef)
  ELSE IF ~Truthy(collectionName)
  THEN Stopped(Err("MissingCollection",
                   "Collection name is required for '" \o operation \o "' operation"),
               <<"validateOperation", "checkReadOnlyMode", "requireCollection">>, Undef)
  ELSE IF validateCollection(collectionName) # NoError
  THEN Stopped(validateCollection(collectionName),
               <<"validateOperation", "checkReadOnlyMode", "requireCollection",
                 "validateCollection">>,
               collectionName)
  ELSE Passed(<<"validateOperation", "checkReadOnlyMode", "requireCollection",
                "validateCollection">>, collectionName)

\* guard is the result of the checks, handled the result of the switch
RouteResult(guard, handled, args, objectIdMode) ==
  IF guard.error # NoError
  THEN [error |-> guard.error, steps |-> guard.steps, handle |-> guard.handle,
        args |-> args, objectIdMode |-> objectIdMode, calls |-> <<>>]
  ELSE [error |-> handled.error, steps |-> Append(guard.steps, "handler"),
        handle |-> guard.handle, args |-> args, objectIdMode |-> objectIdMode,
        calls |-> handled.calls]
RouteGuarded(operation, guard, args, objectIdMode) ==
  RouteResult(guard, Dispatch(operation, guard.handle, args, objectIdMode), args,
              objectIdMode)
RouteArgs(operation, readOnly, args, objectIdMode) ==
  RouteGuarded(operation, Guard(operation, GetProp(args, "collection"), readOnly), args,
               objectIdMode)
Route(request, readOnly) ==
  RouteArgs(request.name, readOnly, HandlerArgs(request), ObjectIdModeOf(request))

(***************************************************************************)
(* The data store: per collection, whether it exists, its documents in     *)
(* insertion order and its set of index specifications.  A filter matches  *)
(* a document when every entry of the filter equals the document's field   *)
(* of that name (the filters of the requests are equality filters); an     *)
(* update document applies its $set entries to the documents it matches.   *)
(***************************************************************************)
StoreColls == {"users", "events", "archive"}
Doc(name) == O(<< <<"name", S(name)>> >>)
IdIndex == O(<< <<"key", O(<< <<"_id", N(1)>> >>)>> >>)
InitialDb ==
  [c \in StoreColls |->
     IF c = "users"
     THEN [exists |-> TRUE, docs |-> <<Doc("a")>>, indexes |-> {IdIndex}]
     ELSE IF c = "events"
     THEN [exists |-> TRUE,
           \* twelve documents named "e" and one named "z"
           docs |-> [k \in 1..13 |-> Doc(IF k = 7 THEN "z" ELSE "e")],
           indexes |-> {IdIndex}]
     ELSE [exists |-> FALSE, docs |-> <<>>, indexes |-> {}]]

Matches(doc, filter) ==
  \A i \in 1..Len(filter.o) : GetProp(doc, filter.o[i][1]) = filter.o[i][2]
Matching(docs, filter) == SelectSeq(docs, LAMBDA d : Matches(d, filter))
\* the document after the $set entries of an update document are applied
ApplyUpdate(doc, update) ==
  IF GetProp(update, "$set").t = "object" THEN ObjectAssign(doc, GetProp(update, "$set"))
  ELSE doc
\* a write to a collection creates it, with the index on _id
Created(coll) == [coll EXCEPT !.exists = TRUE, !.indexes = @ \cup {IdIndex}]
Min(a, b) == IF a <= b THEN a ELSE b
Max(a, b) == IF a >= b THEN a ELSE b

\* the stage of an aggregation that writes its input to a collection:
\* {$out: "name"} or {$merge: {into: "name"}} (or {$merge: "name"})
WriteTarget(stage) ==
  LET out == GetProp(stage, "$out")
      merge == GetProp(stage, "$merge")
  IN  IF out.t = "string" THEN out
      ELSE IF merge.t = "string" THEN merge
      ELSE IF merge.t = "object" /\ GetProp(merge, "into").t = "string"
      THEN GetProp(merge, "into")
      ELSE Undef
PipelineTarget(pipeline) ==
  IF Len(pipeline.a) = 0 THEN Undef ELSE WriteTarget(pipeline.a[Len(pipeline.a)])

\* the documents the stages before a writing stage produce: $match filters,
\* every other stage passes its input on
RECURSIVE RunStages(_, _, _)
RunStages(stages, i, docs) ==
  IF i > Len(stages) THEN docs
  ELSE IF GetProp(stages[i], "$match").t = "object"
  THEN RunStages(stages, i + 1, Matching(docs, GetProp(stages[i], "$match")))
  ELSE RunStages(stages, i + 1, docs)
(***************************************************************************)
(* The requests the external collaborator sends.  Slot 1 takes any request *)
(* of AllRequests; the other slots run the requests of BackgroundRequests  *)
(* concurrently with it.                                                   *)
(***************************************************************************)
MkArgs(entries) == O(SelectSeq(entries, LAMBDA e : e[2] # Undef))
Request(name, entries) == [name |-> name, arguments |-> MkArgs(entries)]

Colls == {Undef, S(""), S("users"), S("system.profile")}
NameIsA == O(<< <<"name", S("a")>> >>)
Filters == {Undef, NameIsA, A(<<>>)}
Updates ==
  {Undef, N(1), A(<<>>), O(<< <<"foo", S("bar")>> >>),
   O(<< <<"$set", O(<< <<"name", S("b")>> >>)>> >>)}
DocumentLists ==
  {Undef, O(<<>>), A(<<>>), A(<<Doc("b")>>), A(<<Doc("b"), N(1)>>), A(<<Null>>),
   A(<<A(<<>>)>>)}
IndexSpec == O(<< <<"key", O(<< <<"name", N(1)>> >>)>> >>)
IndexLists == {Undef, A(<<>>), A(<<IndexSpec>>)}
WriteConcerns == {Null, B(FALSE), S(""), S("majority"), A(<<>>), O(<< <<"w", N(1)>> >>)}
CommitQuorums == {Null, B(FALSE), B(TRUE), N(1), S("votingMembers")}
Pipelines ==
  {Undef, O(<<>>), A(<< O(<< <<"$match", NameIsA>> >>) >>),
   A(<< O(<< <<"$out", S("archive")>> >>) >>)}

QueryRequests ==
  {Request("query", << <<"collection", c>>, <<"filter", f>>, <<"explain", e>> >>) :
     c \in Colls, f \in Filters, e \in {Undef, S("queryPlanner")}}
AggregateRequests ==
  {Request("aggregate", << <<"collection", c>>, <<"pipeline", p>> >>) :
     c \in Colls, p \in Pipelines}
  \cup {Request("aggregate", << <<"collection", S("users")>>,
                               <<"pipeline", A(<< O(<< <<"$match", NameIsA>> >>) >>)>>,
                               <<"explain", S("executionStats")>> >>),
        Request("aggregate", << <<"collection", S("users")>>,
                               <<"pipeline",
                                 A(<< O(<< <<"$merge",
                                            O(<< <<"into", S("archive")>> >>)>> >>) >>)>> >>)}
UpdateRequests ==
  {Request("update", << <<"collection", c>>, <<"filter", f>>, <<"update", u>> >>) :
     c \in Colls, f \in Filters, u \in Updates}
  \cup {Request("update", << <<"collection", S("users")>>, <<"filter", f>>,
                            <<"update", O(<< <<"$set", O(<< <<"name", S("b")>> >>)>> >>)>>,
                            <<"multi", B(TRUE)>>, <<"upsert", u>> >>) :
          f \in {Undef, NameIsA}, u \in {Undef, B(TRUE)}}
  \cup {Request("update", << <<"collection", S("users")>>, <<"filter", NameIsA>>,
                            <<"update", O(<< <<"$set", O(<< <<"name", S("b")>> >>)>> >>)>>,
                            <<"multi", B(FALSE)>>, <<"upsert", B(TRUE)>> >>)}
InsertRequests ==
  {Request("insert", << <<"collection", c>>, <<"documents", d>> >>) :
     c \in Colls, d \in DocumentLists}
CreateIndexRequests ==
  {Request("createIndex", << <<"collection", c>>, <<"indexes", i>> >>) :
     c \in Colls, i \in IndexLists}
  \cup {Request("createIndex", << <<"collection", S("users")>>,
                                 <<"indexes", A(<<IndexSpec>>)>>,
                                 <<"writeConcern", w>> >>) : w \in WriteConcerns}
  \cup {Request("createIndex", << <<"collection", S("users")>>,
                                 <<"indexes", A(<<IndexSpec>>)>>,
                                 <<"commitQuorum", q>> >>) : q \in CommitQuorums}
CountRequests ==
  {Request("count", << <<"collection", c>>, <<"query", f>> >>) : c \in Colls, f \in Filters}
ServerInfoRequests ==
  {Request("serverInfo", << <<"includeDebugInfo", d>> >>) : d \in {Undef, B(TRUE)}}
  \cup {[name |-> "serverInfo", arguments |-> Undef]}
ListCollectionsRequests ==
  {Request("listCollections", << <<"nameOnly", n>> >>) : n \in {Undef, B(TRUE)}}
UnknownRequests ==
  {Request(n, << <<"collection", c>> >>) : n \in {"delete", "dropDatabase"},
                                           c \in {Undef, S("users")}}

AllRequests ==
  QueryRequests \cup AggregateRequests \cup UpdateRequests \cup InsertRequests
  \cup CreateIndexRequests \cup CountRequests \cup ServerInfoRequests
  \cup ListCollectionsRequests \cup UnknownRequests

BackgroundRequests ==
  {Request("insert", << <<"collection", S("users")>>, <<"documents", A(<<Doc("a")>>)>> >>),
   Request("aggregate", << <<"collection", S("users")>>,
                           <<"pipeline", A(<< O(<< <<"$out", S("archive")>> >>) >>)>> >>)}

\* the errors the data store rejects a call with: an Error, a bulk write
\* error with and without its result, and a thrown value that is no Error
ServerError ==
  [isError |-> TRUE, name |-> "MongoServerError", message |-> "connection reset",
   writeErrors |-> Undef, result |-> Undef]
BulkError ==
  [isError |-> TRUE, name |-> "BulkWriteError", message |-> "E11000 duplicate key",
   writeErrors |-> A(<<N(1)>>),
   result |-> O(<< <<"nInserted", N(1)>>, <<"nFailedInserts", N(1)>> >>)]
BareBulkError ==
  [isError |-> TRUE, name |-> "BulkWriteError", message |-> "E11000 duplicate key",
   writeErrors |-> Undef, result |-> Undef]
NonError ==
  [isError |-> FALSE, name |-> "", message |-> "", writeErrors |-> Undef, result |-> Undef]
GatewayErrors == {ServerError, BulkError, BareBulkError, NonError}
\* bulk write errors come from the write calls
RejectionsOf(method) ==
  CASE method = "insertMany" -> GatewayErrors
    [] method \in {"updateOne", "updateMany"} -> {ServerError, BulkError}
    [] OTHER -> {ServerError, NonError}

(***************************************************************************)
(* State.                                                                  *)
(***************************************************************************)
VARIABLES
  isReadOnlyMode,   \* the server's configuration flag
  db,               \* the data store
  writes,           \* the number of writes the data store has applied
  reqs,             \* the request of each slot, with its abort signal
  probe             \* one call of the argument normalizer, run on its own

vars == <<isReadOnlyMode, db, writes, reqs, probe>>

Slots == 1..NumReq
NoOutcome == [kind |-> "none"]
NoCaught == [isError |-> FALSE, name |-> "none", message |-> "", writeErrors |-> Undef,
             result |-> Undef]
Success(payload) == [kind |-> "success", payload |-> payload]
Failed(error) == [kind |-> "failed", error |-> error]
NoProbe == [pc |-> "none"]
IdleReq ==
  [pc |-> "idle", name |-> "", arguments |-> Undef, args |-> Undef, objectIdMode |-> "",
   steps |-> <<>>, handle |-> Undef, calls |-> <<>>, caught |-> NoCaught,
   outcome |-> NoOutcome, aborted |-> FALSE]

Init ==
  /\ isReadOnlyMode \in BOOLEAN
  /\ db = InitialDb
  /\ writes = 0
  /\ reqs = [r \in Slots |-> IdleReq]
  /\ probe = NoProbe

\* handleCallToolRequest is called: the router and the handler run up to the
\* handler's first await
Started(request, out) ==
  [pc |-> IF out.error = NoError THEN "awaiting" ELSE "done",
   name |-> request.name, arguments |-> request.arguments,
   args |-> out.args, objectIdMode |-> out.objectIdMode,
   steps |-> out.steps, handle |-> out.handle, calls |-> out.calls,
   caught |-> NoCaught,
   outcome |-> IF out.error = NoError THEN NoOutcome ELSE Failed(out.error),
   aborted |-> FALSE]
HandleCallToolRequest(r) ==
  /\ reqs[r].pc = "idle"
  /\ \E request \in (IF r = 1 THEN AllRequests ELSE BackgroundRequests) :
       reqs' = [reqs EXCEPT ![r] = Started(request, Route(request, isReadOnlyMode))]
  /\ UNCHANGED <<isReadOnlyMode, db, writes, probe>>
(***************************************************************************)
(* The data-store calls complete.  Each action is the store answering one  *)
(* pending call together with the handler's code after that await.         *)
(***************************************************************************)
PendingCalls(r, methods) ==
  {i \in 1..Len(reqs[r].calls) :
     reqs[r].calls[i].method \in methods /\ reqs[r].calls[i].status = "pending"}
CallOf(req, method) ==
  req.calls[CHOOSE i \in 1..Len(req.calls) : req.calls[i].method = method]
Fulfil(req, i, result) ==
  [req EXCEPT !.calls[i].status = "ok", !.calls[i].result = result]
\* the handler returns or throws: the request has its outcome
Finish(req, outcome) == [req EXCEPT !.pc = "done", !.outcome = outcome]
Slice(seq, skip, limit) == SubSeq(seq, skip + 1, Min(Len(seq), skip + limit))

\* a variant whose hasMore leaves skip out
QueryPayload_IgnoresSkip(req) ==
  LET total == CallOf(req, "countDocuments").result
      results == CallOf(req, "find").result
      skip == CallOf(req, "find").params.options.skip.n
      limit == CallOf(req, "find").params.options.limit.n
  IN  [results |-> results,
       metadata |-> [total |-> total, returned |-> Len(results), skip |-> skip,
                     limit |-> limit, hasMore |-> Len(results) < total]]
\* handleQuery after Promise.all: both calls are fulfilled
QueryPayload(req) ==
  LET total == CallOf(req, "countDocuments").result
      results == CallOf(req, "find").result
      skip == CallOf(req, "find").params.options.skip.n
      limit == CallOf(req, "find").params.options.limit.n
  IN  [results |-> results,
       metadata |-> [total |-> total, returned |-> Len(results), skip |-> skip,
                     limit |-> limit, hasMore |-> skip + Len(results) < total]]
AfterQueryCall(req) ==
  IF req.outcome = NoOutcome /\ \A i \in 1..Len(req.calls) : req.calls[i].status = "ok"
  THEN Finish(req, Success(QueryPayload(req)))
  ELSE req

\* find(...).toArray() of handleQuery
FindToArray(r) ==
  \E i \in PendingCalls(r, {"find"}) :
    LET c == reqs[r].calls[i]
        found == Slice(Matching(db[c.coll.s].docs, c.params.filter),
                       c.params.options.skip.n, c.params.options.limit.n)
    IN  /\ reqs' = [reqs EXCEPT ![r] = AfterQueryCall(Fulfil(reqs[r], i, found))]
        /\ UNCHANGED <<isReadOnlyMode, db, writes, probe>>

\* find(...).explain(verbosity) of handleQuery
FindExplain(r) ==
  \E i \in PendingCalls(r, {"find.explain"}) :
    LET explainResult == [queryPlanner |-> reqs[r].calls[i].params.verbosity]
    IN  /\ reqs' = [reqs EXCEPT ![r] =
                      Finish(Fulfil(reqs[r], i, explainResult), Success(explainResult))]
        /\ UNCHANGED <<isReadOnlyMode, db, writes, probe>>

\* countDocuments of handleQuery and of handleCount
CountDocuments(r) ==
  \E i \in PendingCalls(r, {"countDocuments"}) :
    LET c == reqs[r].calls[i]
        n == Len(Matching(db[c.coll.s].docs, c.params.filter))
        skip == IF GetProp(c.params.options, "skip") = Undef THEN 0
                ELSE GetProp(c.params.options, "skip").n
        count == IF GetProp(c.params.options, "limit") = Undef THEN Max(0, n - skip)
                 ELSE Min(GetProp(c.params.options, "limit").n, Max(0, n - skip))
        req == Fulfil(reqs[r], i, count)
    IN  /\ reqs' = [reqs EXCEPT ![r] =
                      IF req.name = "count"
                      THEN Finish(req, Success([count |-> count, ok |-> 1]))
                      ELSE AfterQueryCall(req)]
        /\ UNCHANGED <<isReadOnlyMode, db, writes, probe>>

\* aggregate(...).toArray() of handleAggregate; a pipeline ending in $out or
\* $merge writes the documents it produced to the target collection
Aggregate(r) ==
  \E i \in PendingCalls(r, {"aggregate"}) :
    LET c == reqs[r].calls[i]
        stages == c.params.pipeline.a
        target == PipelineTarget(c.params.pipeline)
        explained == c.params.explain # Undef
        produced == RunStages(stages, 1, db[c.coll.s].docs)
        written == IF GetProp(stages[Len(stages)], "$out") # Undef THEN produced
                   ELSE db[target.s].docs \o produced
        results == IF target = Undef THEN produced ELSE <<>>
        payload == IF explained THEN [queryPlanner |-> c.params.explain]
                   ELSE [results |-> results, metadata |-> [returned |-> Len(results)]]
    IN  /\ IF target # Undef /\ ~explained
           THEN /\ target.s \in StoreColls
                /\ writes < MaxWrites
                /\ writes' = writes + 1
                /\ db' = [db EXCEPT ![target.s] = [Created(@) EXCEPT !.docs = written]]
           ELSE UNCHANGED <<db, writes>>
        /\ reqs' = [reqs EXCEPT ![r] = Finish(Fulfil(reqs[r], i, payload), Success(payload))]
        /\ UNCHANGED <<isReadOnlyMode, probe>>

\* updateOne / updateMany of handleUpdate
UpdateDocs(r) ==
  \E i \in PendingCalls(r, {"updateOne", "updateMany"}) :
    LET c == reqs[r].calls[i]
        docs == db[c.coll.s].docs
        hits == {k \in 1..Len(docs) : Matches(docs[k], c.params.filter)}
        matched == IF c.method = "updateOne" /\ hits # {}
                   THEN {CHOOSE k \in hits : \A j \in hits : k <= j}
                   ELSE hits
        updated == [k \in 1..Len(docs) |->
                      IF k \in matched THEN ApplyUpdate(docs[k], c.params.update)
                      ELSE docs[k]]
        upserted == c.params.options.upsert /\ hits = {}
        upsertedDoc == ApplyUpdate(c.params.filter, c.params.update)
        result == [acknowledged |-> TRUE,
                   matchedCount |-> Cardinality(matched),
                   modifiedCount |-> Cardinality({k \in matched : updated[k] # docs[k]}),
                   upsertedCount |-> IF upserted THEN 1 ELSE 0,
                   upsertedId |-> IF upserted THEN S("upserted") ELSE Null]
        payload == [matchedCount |-> result.matchedCount,
                    modifiedCount |-> result.modifiedCount,
                    upsertedCount |-> result.upsertedCount,
                    upsertedId |-> result.upsertedId]
        after == IF upserted
                 THEN [db EXCEPT ![c.coll.s] =
                         [Created(@) EXCEPT !.docs = Append(docs, upsertedDoc)]]
                 ELSE [db EXCEPT ![c.coll.s].docs = updated]
    IN  /\ IF after # db
           THEN writes < MaxWrites /\ writes' = writes + 1
           ELSE UNCHANGED writes
        /\ db' = after
        /\ reqs' = [reqs EXCEPT ![r] = Finish(Fulfil(reqs[r], i, result), Success(payload))]
        /\ UNCHANGED <<isReadOnlyMode, probe>>

\* insertMany of handleInsert
InsertMany(r) ==
  \E i \in PendingCalls(r, {"insertMany"}) :
    LET c == reqs[r].calls[i]
        n == Len(c.params.documents)
        result == [acknowledged |-> TRUE, insertedCount |-> n,
                   insertedIds |-> [k \in 1..n |-> k]]
    IN  /\ writes < MaxWrites
        /\ writes' = writes + 1
        /\ db' = [db EXCEPT ![c.coll.s] =
                    [Created(@) EXCEPT !.docs = @ \o c.params.documents]]
        /\ reqs' = [reqs EXCEPT ![r] = Finish(Fulfil(reqs[r], i, result), Success(result))]
        /\ UNCHANGED <<isReadOnlyMode, probe>>

\* createIndexes of handleCreateIndex
CreateIndexes(r) ==
  \E i \in PendingCalls(r, {"createIndexes"}) :
    LET c == reqs[r].calls[i]
        specs == {c.params.indexes[k] : k \in 1..Len(c.params.indexes)}
        before == Created(db[c.coll.s]).indexes
        result == [acknowledged |-> TRUE, createdIndexes |-> specs \ before,
                   numIndexesBefore |-> Cardinality(before),
                   numIndexesAfter |-> Cardinality(before \cup specs)]
        after == [db EXCEPT ![c.coll.s] = [Created(@) EXCEPT !.indexes = @ \cup specs]]
    IN  /\ IF after # db
           THEN writes < MaxWrites /\ writes' = writes + 1
           ELSE UNCHANGED writes
        /\ db' = after
        /\ reqs' = [reqs EXCEPT ![r] = Finish(Fulfil(reqs[r], i, result), Success(result))]
        /\ UNCHANGED <<isReadOnlyMode, probe>>

\* db.command of handleServerInfo: buildInfo, then serverStatus when
\* includeDebugInfo is set
ServerInfoPayload(status) ==
  [version |-> "7.0.0", ok |-> 1, status |-> status,
   connectionInfo |-> [readOnlyMode |-> isReadOnlyMode,
                       readPreference |-> IF isReadOnlyMode THEN "secondary"
                                          ELSE "primary"]]
\* a variant that asks for the server status whenever includeDebugInfo is given
Command_AlwaysStatus(r) ==
  \E i \in PendingCalls(r, {"command:buildInfo", "command:serverStatus"}) :
    LET c == reqs[r].calls[i]
        req == Fulfil(reqs[r], i, [ok |-> 1])
    IN  /\ reqs' = [reqs EXCEPT ![r] =
                      IF c.method = "command:buildInfo"
                      THEN IF GetProp(req.args, "includeDebugInfo") # Undef
                           THEN [req EXCEPT !.calls =
                                   Append(@, Call("command:serverStatus", Undef,
                                                  [command |-> "serverStatus"]))]
                           ELSE Finish(req, Success(ServerInfoPayload(O(<<>>))))
                      ELSE Finish(req, Success(ServerInfoPayload(
                                     O(<< <<"host", S("localhost")>> >>))))]
        /\ UNCHANGED <<isReadOnlyMode, db, writes, probe>>
Command(r) ==
  \E i \in PendingCalls(r, {"command:buildInfo", "command:serverStatus"}) :
    LET c == reqs[r].calls[i]
        req == Fulfil(reqs[r], i, [ok |-> 1])
    IN  /\ reqs' = [reqs EXCEPT ![r] =
                      IF c.method = "command:buildInfo"
                      THEN IF Truthy(GetProp(req.args, "includeDebugInfo"))
                           THEN [req EXCEPT !.calls =
                                   Append(@, Call("command:serverStatus", Undef,
                                                  [command |-> "serverStatus"]))]
                           ELSE Finish(req, Success(ServerInfoPayload(O(<<>>))))
                      ELSE Finish(req, Success(ServerInfoPayload(
                                     O(<< <<"host", S("localhost")>> >>))))]
        /\ UNCHANGED <<isReadOnlyMode, db, writes, probe>>

\* db.listCollections(options).toArray() of handleListCollections
StoreCollSeq == <<"users", "events", "archive">>
\* a variant that returns the first page whatever skip is
ListCollections_FirstPage(r) ==
  \E i \in PendingCalls(r, {"listCollections"}) :
    LET req == reqs[r]
        existing == SelectSeq(StoreCollSeq, LAMBDA c : db[c].exists)
        collections == [k \in 1..Len(existing) |->
                          O(<< <<"name", S(existing[k])>>, <<"type", S("collection")>> >>)]
        allResults == IF Truthy(GetProp(req.args, "nameOnly"))
                      THEN [k \in 1..Len(collections) |-> GetProp(collections[k], "name")]
                      ELSE collections
        skip == OrElse(GetProp(req.args, "skip"), N(0)).n
        limit == OrElse(GetProp(req.args, "limit"), N(20)).n
        total == Len(allResults)
        paged == Slice(allResults, 0, limit)
        payload == [results |-> paged,
                    metadata |-> [total |-> total, returned |-> Len(paged), skip |-> skip,
                                  limit |-> limit, hasMore |-> skip + Len(paged) < total]]
    IN  /\ reqs' = [reqs EXCEPT ![r] = Finish(Fulfil(req, i, collections), Success(payload))]
        /\ UNCHANGED <<isReadOnlyMode, db, writes, probe>>
ListCollections(r) ==
  \E i \in PendingCalls(r, {"listCollections"}) :
    LET req == reqs[r]
        existing == SelectSeq(StoreCollSeq, LAMBDA c : db[c].exists)
        collections == [k \in 1..Len(existing) |->
                          O(<< <<"name", S(existing[k])>>, <<"type", S("collection")>> >>)]
        allResults == IF Truthy(GetProp(req.args, "nameOnly"))
                      THEN [k \in 1..Len(collections) |-> GetProp(collections[k], "name")]
                      ELSE collections
        skip == OrElse(GetProp(req.args, "skip"), N(0)).n
        limit == OrElse(GetProp(req.args, "limit"), N(20)).n
        total == Len(allResults)
        paged == Slice(allResults, skip, limit)
        payload == [results |-> paged,
                    metadata |-> [total |-> total, returned |-> Len(paged), skip |-> skip,
                                  limit |-> limit, hasMore |-> skip + Len(paged) < total]]
    IN  /\ reqs' = [reqs EXCEPT ![r] = Finish(Fulfil(req, i, collections), Success(payload))]
        /\ UNCHANGED <<isReadOnlyMode, db, writes, probe>>

\* the name each handler's catch block gives handleError
OperationLabel(name) ==
  CASE name = "serverInfo" -> "get server information"
    [] name = "createIndex" -> "create indexes"
    [] name = "count" -> "count documents"
    [] name = "listCollections" -> "list collections"
    [] OTHER -> name

\* a variant that answers a rejected call with an empty result
Catch_Swallows(req, e) ==
  IF req.name = "insert" /\ e.isError /\ e.name = "BulkWriteError"
  THEN Success([error |-> "Bulk write error occurred",
                writeErrors |-> e.writeErrors,
                insertedCount |-> OrElse(GetProp(e.result, "nInserted"), N(0)),
                failedCount |-> OrElse(GetProp(e.result, "nFailedInserts"), N(0))])
  ELSE Success([results |-> <<>>])
\* a variant that reports a bulk write error of any operation as a payload
Catch_AnyOperation(req, e) ==
  IF e.isError /\ e.name = "BulkWriteError"
  THEN Success([error |-> "Bulk write error occurred",
                writeErrors |-> e.writeErrors,
                insertedCount |-> OrElse(GetProp(e.result, "nInserted"), N(0)),
                failedCount |-> OrElse(GetProp(e.result, "nFailedInserts"), N(0))])
  ELSE Failed(handleError(e, OperationLabel(req.name), req.handle))
\* the catch block of the handler of req, for the error e of a rejected call
Catch(req, e) ==
  IF req.name = "insert" /\ e.isError /\ e.name = "BulkWriteError"
  THEN Success([error |-> "Bulk write error occurred",
                writeErrors |-> e.writeErrors,
                insertedCount |-> OrElse(GetProp(e.result, "nInserted"), N(0)),
                failedCount |-> OrElse(GetProp(e.result, "nFailedInserts"), N(0))])
  ELSE Failed(handleError(e, OperationLabel(req.name), req.handle))

\* a variant where a later rejection writes the outcome again
StoreRejects_Overwrites(r) ==
  \E i \in 1..Len(reqs[r].calls) : \E e \in RejectionsOf(reqs[r].calls[i].method) :
    LET c == reqs[r].calls[i]
        req == [reqs[r] EXCEPT !.calls[i].status = "failed"]
        inserted == IF c.method = "insertMany" /\ e.name = "BulkWriteError"
                    THEN OrElse(GetProp(e.result, "nInserted"), N(0)).n
                    ELSE 0
    IN  /\ c.status = "pending"
        /\ IF inserted > 0
           THEN /\ writes < MaxWrites
                /\ writes' = writes + 1
                /\ db' = [db EXCEPT ![c.coll.s] =
                            [Created(@) EXCEPT !.docs =
                               @ \o SubSeq(c.params.documents, 1,
                                           Min(inserted, Len(c.params.documents)))]]
           ELSE UNCHANGED <<db, writes>>
        /\ reqs' = [reqs EXCEPT ![r] =
                      [Finish(req, Catch(req, e)) EXCEPT !.caught = e]]
        /\ UNCHANGED <<isReadOnlyMode, probe>>
\* the data store rejects a pending call; a bulk write error of insertMany
\* leaves the documents it reports as inserted in the collection
StoreRejects(r) ==
  \E i \in 1..Len(reqs[r].calls) : \E e \in RejectionsOf(reqs[r].calls[i].method) :
    LET c == reqs[r].calls[i]
        req == [reqs[r] EXCEPT !.calls[i].status = "failed"]
        inserted == IF c.method = "insertMany" /\ e.name = "BulkWriteError"
                    THEN OrElse(GetProp(e.result, "nInserted"), N(0)).n
                    ELSE 0
    IN  /\ c.status = "pending"
        /\ IF inserted > 0
           THEN /\ writes < MaxWrites
                /\ writes' = writes + 1
                /\ db' = [db EXCEPT ![c.coll.s] =
                            [Created(@) EXCEPT !.docs =
                               @ \o SubSeq(c.params.documents, 1,
                                           Min(inserted, Len(c.params.documents)))]]
           ELSE UNCHANGED <<db, writes>>
        /\ reqs' = [reqs EXCEPT ![r] =
                      IF req.outcome = NoOutcome
                      THEN [Finish(req, Catch(req, e)) EXCEPT !.caught = e]
                      ELSE req]
        /\ UNCHANGED <<isReadOnlyMode, probe>>

\* the response went back to the external collaborator and every call of the
\* request has settled: the slot takes the next request
Release(r) ==
  /\ reqs[r].pc = "done"
  /\ \A i \in 1..Len(reqs[r].calls) : reqs[r].calls[i].status # "pending"
  /\ reqs' = [reqs EXCEPT ![r] = IdleReq]
  /\ UNCHANGED <<isReadOnlyMode, db, writes, probe>>

Next ==
  \/ \E r \in Slots : HandleCallToolRequest(r)
  \/ \E r \in Slots : FindToArray(r)
  \/ \E r \in Slots : FindExplain(r)
  \/ \E r \in Slots : CountDocuments(r)
  \/ \E r \in Slots : Aggregate(r)
  \/ \E r \in Slots : UpdateDocs(r)
  \/ \E r \in Slots : InsertMany(r)
  \/ \E r \in Slots : CreateIndexes(r)
  \/ \E r \in Slots : Command(r)
  \/ \E r \in Slots : ListCollections(r)
  \/ \E r \in Slots : StoreRejects(r)
  \/ \E r \in Slots : Release(r)

Spec == Init /\ [][Next]_vars

(***************************************************************************)
(* The query handler on its own: QuerySpec sends slot 1 the queries that    *)
(* page through the collection events (twelve documents named "e") or read  *)
(* the collection users, with and without explain, while the other slots    *)
(* insert into users.                                                       *)
(***************************************************************************)
QueryArrives ==
  /\ reqs[1].pc = "idle"
  /\ \E request \in
         {Request("query", << <<"collection", S("events")>>,
                             <<"filter", O(<< <<"name", S("e")>> >>)>>,
                             <<"limit", l>>, <<"skip", k>>, <<"explain", e>> >>) :
            l \in {Undef, N(0), N(5)}, k \in {Undef, N(0), N(10), N(20)},
            e \in {Undef, B(FALSE), S("executionStats")}}
         \cup {Request("query", << <<"collection", S("users")>>, <<"filter", f>>,
                                   <<"limit", l>>, <<"explain", e>> >>) :
                 f \in Filters, l \in {Undef, N(1)}, e \in {Undef, S(""), S("queryPlanner")}}
         \cup {Request("query", << <<"collection", S("users")>>, <<"sort", s>>,
                                   <<"explain", e>> >>) :
                 s \in {O(<< <<"name", N(1)>> >>),
                        O(<< <<"name", N(-1)>>, <<"age", S("asc")>>, <<"rank", N(2)>> >>),
                        O(<< <<"name", S("desc")>> >>), O(<<>>), S("name"),
                        A(<<S("name")>>), N(1)},
                 e \in {Undef, S("queryPlanner")}} :
       reqs' = [reqs EXCEPT ![1] = Started(request, Route(request, isReadOnlyMode))]
  /\ UNCHANGED <<isReadOnlyMode, db, writes, probe>>
QueryNext ==
  \/ QueryArrives
  \/ \E r \in Slots \ {1} : HandleCallToolRequest(r)
  \/ \E r \in Slots : FindToArray(r)
  \/ \E r \in Slots : FindExplain(r)
  \/ \E r \in Slots : CountDocuments(r)
  \/ \E r \in Slots : InsertMany(r)
  \/ \E r \in Slots : Aggregate(r)
  \/ \E r \in Slots : StoreRejects(r)
  \/ \E r \in Slots : Release(r)
QuerySpec == Init /\ [][QueryNext]_vars

(***************************************************************************)
(* The argument normalizer on its own: processObjectIdInFilter and         *)
(* parseFilter are pure functions; ProbeSpec draws one input and one       *)
(* conversion mode and applies the function to it.                         *)
(***************************************************************************)
\* the strings at the leaves of the filters
Samples ==
  [hex24 |-> "507f1f77bcf86cd799439011",
   notHex24 |-> "507f1f77bcf86cd79943901g",
   hex23 |-> "507f1f77bcf86cd79943901",
   isoSeconds |-> "2023-01-01T00:00:00Z",
   isoMillis |-> "2023-01-01T00:00:00.123Z",
   wrappedIso |-> "ISODate(\"2023-01-01T00:00:00Z\")",
   wrappedNotDate |-> "ISODate(\"not-a-date\")",
   wrappedUnquoted |-> "ISODate(2023-01-01T00:00:00Z\")",
   plain |-> "a"]
TreeKeys == {"_id", "name", "userId", "__proto__"}

\* the JSON values nested at most depth deep
RECURSIVE Trees(_)
Trees(depth) ==
  {S(Samples[k]) : k \in DOMAIN Samples} \cup {N(1), Null}
  \cup (IF depth = 0 THEN {}
        ELSE {O(<< <<k, t>> >>) : k \in TreeKeys, t \in Trees(depth - 1)}
             \cup {A(<<t>>) : t \in Trees(depth - 1)})
FilterTrees ==
  {O(<< <<k, t>> >>) : k \in TreeKeys, t \in Trees(MaxDepth)}
  \cup
  {O(<< <<"_id", S(Samples.hex24)>>, <<"name", S(Samples.hex24)>> >>),
   O(<< <<"tags", A(<<S(Samples.hex24), S(Samples.isoSeconds), N(1)>>)>>, <<"when", S(Samples.wrappedIso)>> >>),
   O(<< <<"$or", A(<<O(<< <<"_id", S(Samples.hex24)>> >>), O(<< <<"name", S("a")>> >>)>>)>> >>),
   O(<<>>)}

BrokenJsonTexts == {"{bad", "not json", "{\"a\":}", "{\"a\":1,}", "{\"a\":1} x", "{'a':1}"}
FilterArguments ==
  {Undef, Null, B(FALSE), N(0), S(""), B(TRUE), N(5), A(<<>>), A(<<NameIsA>>), O(<<>>),
   NameIsA, O(<< <<"_id", S(Samples.hex24)>> >>), O(<< <<"when", S(Samples.isoSeconds)>> >>)}
  \cup {S(text) : text \in BrokenJsonTexts}
  \cup {S("{\"name\":\"a\"}"), S("{\"_id\":\"507f1f77bcf86cd799439011\"}"), S("{}"),
        S(" { \"a\" : [1, true, null], \"b\" : {\"c\" : -20} } "), S("{\"a\":1,\"a\":2}"),
        S("null"), S("5"), S("[1]"), S("\"abc\"")}

(***************************************************************************)
(* Cursor pagination (utils/pagination.ts).  A cursor is the base64 text   *)
(* of the JSON text {"offset":n}.                                          *)
(***************************************************************************)
DEFAULT_PAGE_SIZE == 20
\* the characters with codes 32 .. 126 ("?" stands in for code 96), and the
\* base64 alphabet
Ascii ==
  " !\"#$%&'()*+,-./0123456789:;<=>?@ABCDEFGHIJKLMNOPQRSTUVWXYZ[\\]^_?abcdefghijklmnopqrstuvwxyz{|}~"
Base64Chars == "ABCDEFGHIJKLMNOPQRSTUVWXYZabcdefghijklmnopqrstuvwxyz0123456789+/"
\* the position of character c in table, 0 when it is not there
IndexIn(table, c) ==
  IF \E i \in 1..Len(table) : At(table, i) = c
  THEN CHOOSE i \in 1..Len(table) : At(table, i) = c
  ELSE 0

\* Buffer.from(text).toString("base64") from character i on: three bytes
\* give four characters
RECURSIVE Base64Encode(_, _)
Base64Encode(text, i) ==
  IF i > Len(text) THEN ""
  ELSE LET Byte(k) == IF k <= Len(text) THEN IndexIn(Ascii, At(text, k)) + 31 ELSE 0
           Char(k) == At(Base64Chars, k + 1)
       IN  (CHOOSE group \in
             {Char(bits \div 262144) \o Char((bits \div 4096) % 64)
              \o (IF i + 1 <= Len(text) THEN Char((bits \div 64) % 64) ELSE "=")
              \o (IF i + 2 <= Len(text) THEN Char(bits % 64) ELSE "=") :
                bits \in {Byte(i) * 65536 + Byte(i + 1) * 256 + Byte(i + 2)}} : TRUE)
           \o Base64Encode(text, i + 3)
\* the base64 digits of a cursor from character i up to its padding; other
\* characters are skipped, as Buffer.from(cursor, "base64") skips them
RECURSIVE Base64Digits(_, _)
Base64Digits(text, i) ==
  IF i > Len(text) \/ At(text, i) = "=" THEN <<>>
  ELSE IF IndexIn(Base64Chars, At(text, i)) = 0 THEN Base64Digits(text, i + 1)
  ELSE <<IndexIn(Base64Chars, At(text, i)) - 1>> \o Base64Digits(text, i + 1)
\* Buffer.from(cursor, "base64").toString("utf-8") from digit i on: four
\* digits give three bytes, a rest of three gives two, a rest of two gives
\* one; a byte outside 32 .. 126 shows as "?"
RECURSIVE Base64Decode(_, _)
Base64Decode(digits, i) ==
  IF i + 1 > Len(digits) THEN ""
  ELSE LET Digit(k) == IF k <= Len(digits) THEN digits[k] ELSE 0
           Char(byte) == IF byte \in 32..126 THEN At(Ascii, byte - 31) ELSE "?"
       IN  (CHOOSE group \in
             {Char(bits \div 65536)
              \o (IF i + 2 <= Len(digits) THEN Char((bits \div 256) % 256) ELSE "")
              \o (IF i + 3 <= Len(digits) THEN Char(bits % 256) ELSE "") :
                bits \in {Digit(i) * 262144 + Digit(i + 1) * 4096 + Digit(i + 2) * 64
                          + Digit(i + 3)}} : TRUE)
           \o Base64Decode(digits, i + 4)

\* encodeCursor(offset): JSON.stringify({offset}) in base64
encodeCursor(offset) ==
  CHOOSE cursor \in {Base64Encode(text, 1) :
                       text \in {"{\"offset\":" \o NumToString(offset) \o "}"}} : TRUE
\* what decodeCursor returns once the cursor's text is parsed: data.offset
\* when it is a number >= 0; a parse failure and a property read on null
\* are caught
OffsetOf(data) ==
  IF /\ data.ok
     /\ CanEntries(data.v)
     /\ GetProp(data.v, "offset").t = "number"
     /\ GetProp(data.v, "offset").n >= 0
  THEN GetProp(data.v, "offset").n
  ELSE 0
\* a variant that reads any number as the offset
decodeCursor_AnyNumber(cursor) ==
  IF ~Truthy(cursor) THEN 0
  ELSE CHOOSE offset \in
         {IF data.ok /\ GetProp(data.v, "offset").t = "number"
          THEN GetProp(data.v, "offset").n ELSE 0 :
            data \in {JSONParse(text) :
                        text \in {Base64Decode(digits, 1) :
                                    digits \in {Base64Digits(cursor.s, 1)}}}} : TRUE
decodeCursor(cursor) ==
  IF ~Truthy(cursor) THEN 0
  ELSE CHOOSE offset \in
         {OffsetOf(data) :
            data \in {JSONParse(text) :
                        text \in {Base64Decode(digits, 1) :
                                    digits \in {Base64Digits(cursor.s, 1)}}}} : TRUE
\* paginate(items, cursor, pageSize), pageSize already defaulted
paginate(items, cursor, pageSize) ==
  CHOOSE result \in
    {[items |-> Slice(items, offset, pageSize),
      nextCursor |-> IF offset + pageSize < Len(items)
                     THEN S(encodeCursor(offset + pageSize))
                     ELSE Undef] : offset \in {decodeCursor(cursor)}} : TRUE

\* the offsets, cursors, lists and page sizes given to the pagination
\* functions
Offsets == {N(n) : n \in 0..MaxOffset \cup {100, 1000, 12345}}
Cursors ==
  [valid |-> {S("eyJvZmZzZXQiOjIwfQ=="), S("eyJvZmZzZXQiOjIwfQ"), S("eyJvZmZzZXQiOjB9"),
              S(" eyJvZmZz ZXQiOjIwfQ==")},
   invalid |-> {Undef, S(""), S("not a cursor"), S("%%%"), S("e"), S("eyJvZmZzZXQiOi0xfQ=="),
                S("eyJvZmZzZXQiOiI1In0="), S("bnVsbA=="), S("e30="), S("NQ=="), S("WzFd"),
                S("eyJvZmZzZXQiOm51bGx9"), S("{\"offset\":20}")}]
ItemLists == {[k \in 1..n |-> N(k)] : n \in 0..MaxItems \cup {DEFAULT_PAGE_SIZE + 1}}
PageSizes == {Undef} \cup {N(p) : p \in 1..MaxPageSize}

ProbeInit ==
  /\ isReadOnlyMode = FALSE
  /\ db = InitialDb
  /\ writes = 0
  /\ reqs = [r \in Slots |-> IdleReq]
  /\ probe \in [pc : {"ready"}, fn : {"processObjectIdInFilter"}, input : FilterTrees,
                 mode : {"auto", "none", "force"}, error : {NoError}, output : {Undef}]
          \cup [pc : {"ready"}, fn : {"parseFilter"}, input : FilterArguments,
                mode : {"auto", "none", "force"}, error : {NoError}, output : {Undef}]

\* processObjectIdInFilter(input, mode) returns
RunProcessObjectIdInFilter ==
  /\ probe.pc = "ready"
  /\ probe.fn = "processObjectIdInFilter"
  /\ probe' = [probe EXCEPT !.pc = "done",
                            !.output = processObjectIdInFilter(probe.input, probe.mode)]
  /\ UNCHANGED <<isReadOnlyMode, db, writes, reqs>>

\* parseFilter(input, mode) returns or throws
RunParseFilter ==
  /\ probe.pc = "ready"
  /\ probe.fn = "parseFilter"
  /\ \E result \in {parseFilter(probe.input, probe.mode)} :
       probe' = [probe EXCEPT !.pc = "done", !.error = result.error, !.output = result.v]
  /\ UNCHANGED <<isReadOnlyMode, db, writes, reqs>>

\* encodeCursor(input) returns
RunEncodeCursor ==
  /\ probe.pc = "ready"
  /\ probe.fn = "encodeCursor"
  /\ probe' = [probe EXCEPT !.pc = "encoded", !.output = S(encodeCursor(probe.input.n))]
  /\ UNCHANGED <<isReadOnlyMode, db, writes, reqs>>

\* decodeCursor returns, given the input or the cursor encodeCursor made
RunDecodeCursor ==
  /\ \/ probe.pc = "ready" /\ probe.fn = "decodeCursor"
     \/ probe.pc = "encoded"
  /\ probe' = [probe EXCEPT !.pc = "done",
                            !.output = N(decodeCursor(IF probe.pc = "encoded"
                                                      THEN probe.output
                                                      ELSE probe.input.cursor))]
  /\ UNCHANGED <<isReadOnlyMode, db, writes, reqs>>

\* the caller asks for the next page: paginate(items, nextCursor, pageSize)
\* with the cursor of the page before, no cursor at first
RunPaginate ==
  /\ probe.pc \in {"ready", "paging"}
  /\ probe.fn = "paginate"
  /\ \E page \in {paginate(probe.input.items, probe.output.nextCursor,
                            IF probe.input.pageSize = Undef THEN DEFAULT_PAGE_SIZE
                            ELSE probe.input.pageSize.n)} :
       probe' = [probe EXCEPT !.pc = IF page.nextCursor = Undef THEN "done" ELSE "paging",
                              !.output = [items |-> @.items \o page.items,
                                          nextCursor |-> page.nextCursor,
                                          pages |-> @.pages + 1]]
  /\ UNCHANGED <<isReadOnlyMode, db, writes, reqs>>

ProbeNext == RunProcessObjectIdInFilter \/ RunParseFilter
ProbeSpec == ProbeInit /\ [][ProbeNext]_vars

\* the pagination functions on their own
PagingInit ==
  /\ isReadOnlyMode = FALSE
  /\ db = InitialDb
  /\ writes = 0
  /\ reqs = [r \in Slots |-> IdleReq]
  /\ probe \in [pc : {"ready"}, fn : {"encodeCursor"}, input : Offsets,
                 mode : {""}, error : {NoError}, output : {Undef}]
          \cup [pc : {"ready"}, fn : {"decodeCursor"},
                input : {[cursor |-> c, valid |-> TRUE] : c \in Cursors.valid}
                        \cup {[cursor |-> c, valid |-> FALSE] : c \in Cursors.invalid},
                mode : {""}, error : {NoError}, output : {Undef}]
          \cup [pc : {"ready"}, fn : {"paginate"},
                input : [items : ItemLists, pageSize : PageSizes],
                mode : {""}, error : {NoError},
                output : {[items |-> <<>>, nextCursor |-> Undef, pages |-> 0]}]
PagingNext == RunEncodeCursor \/ RunDecodeCursor \/ RunPaginate
PagingSpec == PagingInit /\ [][PagingNext]_vars
\* the caller goes on until a call has returned and the last page is read
FairPagingSpec == PagingSpec /\ WF_vars(PagingNext)

(***************************************************************************)
(* The options of a request: OptionsSpec sends slot 1 the requests that    *)
(* page listCollections, ask serverInfo for its debug information or name  *)
(* a conversion mode, while one other slot at a time runs its own request. *)
(***************************************************************************)
\* the arguments' document with identifier strings at two nesting levels
ModeDoc ==
  O(<< <<"userId", S(Samples.hex24)>>,
       <<"meta", O(<< <<"ownerId", S(Samples.hex24)>>, <<"note", S(Samples.hex24)>> >>)>> >>)
OptionRequests ==
  {Request("listCollections", << <<"nameOnly", n>>, <<"skip", k>>, <<"limit", l>> >>) :
     n \in {Undef, B(FALSE), B(TRUE)}, k \in {Undef, N(0), N(1), N(2), N(3)},
     l \in {Undef, N(1), N(2)}}
  \cup {Request("serverInfo", << <<"includeDebugInfo", d>> >>) :
          d \in {Undef, B(FALSE), B(TRUE), S(""), S("yes")}}
  \cup {[name |-> "serverInfo", arguments |-> Undef]}
  \cup UNION {{Request("query", << <<"collection", S("users")>>, <<"filter", ModeDoc>>,
                                  <<"objectIdMode", m>> >>),
               Request("update", << <<"collection", S("users")>>, <<"filter", ModeDoc>>,
                                   <<"update", O(<< <<"$set", ModeDoc>> >>)>>,
                                   <<"objectIdMode", m>> >>),
               Request("insert", << <<"collection", S("users")>>,
                                   <<"documents", A(<<ModeDoc>>)>>,
                                   <<"objectIdMode", m>> >>),
               Request("aggregate", << <<"collection", S("users")>>,
                                      <<"pipeline", A(<< O(<< <<"$match", ModeDoc>> >>) >>)>>,
                                      <<"objectIdMode", m>> >>),
               Request("createIndex", << <<"collection", S("users")>>,
                                        <<"indexes", A(<<ModeDoc>>)>>,
                                        <<"objectIdMode", m>> >>)} :
              m \in {Undef, S("auto"), S("none"), S("force")}}
CompanionRequests ==
  {Request("count", << <<"collection", S("users")>>, <<"query", ModeDoc>>,
                      <<"objectIdMode", S("none")>> >>),
   Request("count", << <<"collection", S("users")>>, <<"query", ModeDoc>> >>),
   Request("aggregate", << <<"collection", S("users")>>,
                           <<"pipeline", A(<< O(<< <<"$out", S("archive")>> >>) >>)>> >>)}

\* handleCallToolRequest is called with one of the given requests
Arrives(r, requests) ==
  /\ reqs[r].pc = "idle"
  /\ \E request \in requests :
       reqs' = [reqs EXCEPT ![r] = Started(request, Route(request, isReadOnlyMode))]
  /\ UNCHANGED <<isReadOnlyMode, db, writes, probe>>
OptionsNext ==
  \/ Arrives(1, OptionRequests)
  \/ \E r \in Slots \ {1} :
       /\ \A q \in Slots \ {1, r} : reqs[q].pc = "idle"
       /\ Arrives(r, CompanionRequests)
  \/ \E r \in Slots : FindToArray(r)
  \/ \E r \in Slots : CountDocuments(r)
  \/ \E r \in Slots : Aggregate(r)
  \/ \E r \in Slots : UpdateDocs(r)
  \/ \E r \in Slots : InsertMany(r)
  \/ \E r \in Slots : CreateIndexes(r)
  \/ \E r \in Slots : Command(r)
  \/ \E r \in Slots : ListCollections(r)
  \/ \E r \in Slots : StoreRejects(r)
  \/ \E r \in Slots : Release(r)
OptionsSpec == Init /\ [][OptionsNext]_vars

(***************************************************************************)
(* Cancellation.  The server passes every handler the request's abort      *)
(* signal; CancelSpec lets the signal of a request in flight be aborted.   *)
(* handleCallToolRequest takes no signal.  handleReadResourceRequest       *)
(* (resource handler, part_004) calls signal?.throwIfAborted() before each *)
(* data-store call.  A resource read takes a slot like a tool request;     *)
(* steps lists the checks that threw, and the schema's fields are the keys *)
(* of the sampled documents.                                               *)
(***************************************************************************)
\* the outer catch block: throw new Error("Failed to read collection ...")
ReadFails(req, message) ==
  Finish(req, Failed(Err("ReadFailure",
                         "Failed to read collection " \o req.handle.s \o ": " \o message)))
\* the handler returns the schema, documentCount a number or a text
ReadReturns(req, documentCount) ==
  LET sampled == IF CallOf(req, "read.aggregate").status = "ok"
                 THEN CallOf(req, "read.aggregate").result
                 ELSE CallOf(req, "read.find").result
  IN  Finish(req, Success([type |-> "collection", name |-> req.handle.s,
                           fields |-> UNION {{sampled[k].o[j][1] : j \in 1..Len(sampled[k].o)} :
                                               k \in 1..Len(sampled)},
                           indexes |-> CallOf(req, "read.indexes").result,
                           documentCount |-> documentCount,
                           sampleSize |-> Len(sampled)]))
\* the handler from one of its checks to its next await, return or throw:
\* point names the data-store call the check stands before.  The check
\* before $sample throws into the catch block that falls back to find, the
\* check before countDocuments into the one that falls back to collStats,
\* and the check before collStats into an empty catch block.
RECURSIVE ReadFrom(_, _)
ReadFrom(req, point) ==
  LET thrown == [req EXCEPT !.steps = Append(@, "aborted before " \o point)]
      Await(method, limit) ==
        [req EXCEPT !.calls = Append(@, Call(method, req.handle, [limit |-> limit]))]
  IN  CASE point = "aggregate" ->
             IF req.aborted THEN ReadFrom(thrown, "find") ELSE Await("read.aggregate", 100)
        [] point = "find" ->
             IF req.aborted THEN ReadFails(thrown, "This operation was aborted")
             ELSE Await("read.find", 100)
        [] point = "indexes" ->
             IF req.aborted THEN ReadFails(thrown, "This operation was aborted")
             ELSE Await("read.indexes", 0)
        [] point = "countDocuments" ->
             IF req.aborted THEN ReadFrom(thrown, "collStats")
             ELSE Await("read.countDocuments", 0)
        [] point = "collStats" ->
             IF req.aborted THEN ReadReturns(thrown, S("unknown (count operation timed out)"))
             ELSE Await("read.collStats", 0)

\* handleReadResourceRequest is called: the collection name is the path of
\* the URI without its leading slash; the signal may be aborted already
ReadArrives(r) ==
  /\ reqs[r].pc = "idle"
  /\ \E uri \in {"mongodb:///users", "mongodb://localhost/archive"} : \E aborted \in BOOLEAN :
       LET rest == SubSeq(uri, Len("mongodb://") + 1, Len(uri))
           slash == CHOOSE i \in 1..Len(rest) :
                      At(rest, i) = "/" /\ \A j \in 1..(i - 1) : At(rest, j) # "/"
           collectionName == SubSeq(rest, slash + 1, Len(rest))
       IN  reqs' = [reqs EXCEPT ![r] =
                      ReadFrom([IdleReq EXCEPT !.pc = "awaiting", !.name = "resources/read",
                                               !.arguments = O(<< <<"uri", S(uri)>> >>),
                                               !.handle = S(collectionName),
                                               !.aborted = aborted],
                               "aggregate")]
  /\ UNCHANGED <<isReadOnlyMode, db, writes, probe>>

\* the data store answers the pending call of a resource read, or rejects
\* it, or the five-second timer of countDocuments fires first; the handler
\* runs on to its next await
ReadAnswers(r) ==
  \E i \in PendingCalls(r, {"read.aggregate", "read.find", "read.indexes",
                            "read.countDocuments", "read.collStats"}) :
    \E answer \in {"ok", "rejected", "timed out"} :
      LET c == reqs[r].calls[i]
          coll == db[c.coll.s]
          failed == [reqs[r] EXCEPT !.calls[i].status = "failed"]
      IN  /\ answer = "timed out" => c.method = "read.countDocuments"
          /\ reqs' = [reqs EXCEPT ![r] =
               CASE c.method = "read.aggregate" /\ answer = "ok" ->
                      ReadFrom(Fulfil(reqs[r], i, Slice(coll.docs, 0, c.params.limit)),
                               "indexes")
                 [] c.method = "read.aggregate" /\ answer # "ok" -> ReadFrom(failed, "find")
                 [] c.method = "read.find" /\ answer = "ok" ->
                      ReadFrom(Fulfil(reqs[r], i, Slice(coll.docs, 0, c.params.limit)),
                               "indexes")
                 [] c.method = "read.indexes" /\ answer = "ok" ->
                      ReadFrom(Fulfil(reqs[r], i, coll.indexes), "countDocuments")
                 [] c.method = "read.countDocuments" /\ answer = "ok" ->
                      ReadReturns(Fulfil(reqs[r], i, Len(coll.docs)), N(Len(coll.docs)))
                 [] c.method = "read.countDocuments" /\ answer # "ok" ->
                      ReadFrom(failed, "collStats")
                 [] c.method = "read.collStats" /\ answer = "ok" ->
                      ReadReturns(Fulfil(reqs[r], i, [count |-> Len(coll.docs)]),
                                  N(Len(coll.docs)))
                 [] c.method = "read.collStats" /\ answer # "ok" ->
                      ReadReturns(failed, S("unknown (count operation timed out)"))
                 [] OTHER -> ReadFails(failed, ServerError.message)]
          /\ UNCHANGED <<isReadOnlyMode, db, writes, probe>>

\* the client cancels a request in flight: its signal is aborted
SignalAborts(r) ==
  /\ reqs[r].pc = "awaiting"
  /\ ~reqs[r].aborted
  /\ reqs' = [reqs EXCEPT ![r].aborted = TRUE]
  /\ UNCHANGED <<isReadOnlyMode, db, writes, probe>>

CancelNext ==
  \/ \E r \in Slots :
       Arrives(r, {Request("query", << <<"collection", S("users")>> >>),
                   Request("count", << <<"collection", S("users")>> >>),
                   Request("serverInfo", << <<"includeDebugInfo", B(TRUE)>> >>),
                   Request("insert", << <<"collection", S("users")>>,
                                       <<"documents", A(<<Doc("b")>>)>> >>)})
  \/ \E r \in Slots : ReadArrives(r)
  \/ \E r \in Slots : SignalAborts(r)
  \/ \E r \in Slots : ReadAnswers(r)
  \/ \E r \in Slots : FindToArray(r)
  \/ \E r \in Slots : CountDocuments(r)
  \/ \E r \in Slots : InsertMany(r)
  \/ \E r \in Slots : Command(r)
  \/ \E r \in Slots : Release(r)
CancelSpec == Init /\ [][CancelNext]_vars

(***************************************************************************)
(* Properties.  The predicates below describe a request by the arguments   *)
(* it was sent with and by what became of it.                              *)
(***************************************************************************)
Contains(s, sub) ==
  \E i \in 1..(Len(s) - Len(sub) + 1) : SubSeq(s, i, i + Len(sub) - 1) = sub
Arrived(r) == reqs[r].pc # "idle"
Arg(r, key) == GetProp(reqs[r].arguments, key)
FailedWith(r, kind) == reqs[r].outcome.kind = "failed" /\ reqs[r].outcome.error.kind = kind
Succeeded(r) == reqs[r].outcome.kind = "success"
HandlerRan(r) == \E i \in 1..Len(reqs[r].steps) : reqs[r].steps[i] = "handler"
NoCalls(r) == reqs[r].calls = <<>>
CollectionOps == {"query", "aggregate", "update", "insert", "createIndex", "count"}
KnownOps == CollectionOps \cup {"serverInfo", "listCollections"}
MutatingOps == {"update", "insert", "createIndex"}
UnusableCollection(v) ==
  v = Undef \/ v = S("") \/ (v.t = "string" /\ Len(v.s) >= 7 /\ SubSeq(v.s, 1, 7) = "system.")
UpdateOperatorKeys ==
  {"$set", "$unset", "$inc", "$push", "$pull", "$addToSet", "$pop", "$rename", "$mul"}
UsableUpdate(u) ==
  u.t = "object" /\ \E i \in 1..Len(u.o) : u.o[i][1] \in UpdateOperatorKeys
UnusableDocuments(d) ==
  d.t # "array" \/ d.a = <<>> \/ \E i \in 1..Len(d.a) : d.a[i].t # "object"
UnusableIndexes(x) == x.t # "array" \/ x.a = <<>>

\* C1: in read-only mode every update, insert and createIndex request fails
\* with the read-only violation, whatever its other arguments, and issues no
\* data-store call.
C1_ReadOnlyRejectsWrites ==
  \A r \in Slots :
    (isReadOnlyMode /\ Arrived(r) /\ reqs[r].name \in MutatingOps)
      => (FailedWith(r, "ReadOnlyViolation") /\ NoCalls(r))
C1_Witness ==
  /\ isReadOnlyMode
  /\ reqs[1].name = "createIndex"
  /\ Arg(1, "collection") = S("users")
  /\ Arg(1, "indexes") = A(<<IndexSpec>>)
  /\ FailedWith(1, "ReadOnlyViolation")

\* C2: in read-only mode no request of any operation, in any interleaving,
\* changes the documents, the collections or the indexes of the data store.
C2_ReadOnlyNeverModifies == isReadOnlyMode => db = InitialDb

\* C3: a request whose operation is none of the eight known ones fails with
\* the unknown-operation error; no collection handle is resolved and no
\* data-store call is made, in read-only and in read-write mode.
C3_UnknownOperationRejected ==
  \A r \in Slots :
    (Arrived(r) /\ reqs[r].name \notin KnownOps)
      => (FailedWith(r, "UnknownOperation") /\ reqs[r].handle = Undef /\ NoCalls(r))
C3_Witness ==
  /\ ~isReadOnlyMode
  /\ reqs[1].name = "dropDatabase"
  /\ Arg(1, "collection") = S("users")
  /\ FailedWith(1, "UnknownOperation")

\* C4: a collection operation whose collection argument is absent, empty or
\* starts with "system." fails, its handler does not run and no data-store
\* call is issued; serverInfo and listCollections run their handlers without
\* a collection argument.
C4_CollectionSafety ==
  \A r \in Slots :
    /\ (Arrived(r) /\ reqs[r].name \in CollectionOps
          /\ UnusableCollection(Arg(r, "collection")))
         => (reqs[r].outcome.kind = "failed" /\ ~HandlerRan(r) /\ NoCalls(r))
    /\ (Arrived(r) /\ reqs[r].name \in {"serverInfo", "listCollections"}
          /\ Arg(r, "collection") = Undef)
         => (HandlerRan(r) /\ reqs[r].handle = Undef /\ ~NoCalls(r))
C4_Witness ==
  /\ ~isReadOnlyMode
  /\ reqs[1].name = "query"
  /\ Arg(1, "collection") = S("system.profile")
  /\ FailedWith(1, "ForbiddenCollection")
  /\ NoCalls(1)

StepRank(step) ==
  CASE step = "validateOperation" -> 1
    [] step = "checkReadOnlyMode" -> 2
    [] step = "requireCollection" -> 3
    [] step = "validateCollection" -> 4
    [] step = "handler" -> 5
ViolatesWhitelist(r) == reqs[r].name \notin KnownOps
ViolatesPolicy(r) == isReadOnlyMode /\ reqs[r].name \in MutatingOps
ViolatesCollection(r) ==
  reqs[r].name \in CollectionOps /\ UnusableCollection(Arg(r, "collection"))
ViolatesArguments(r) ==
  \/ reqs[r].name = "update" /\ ~UsableUpdate(Arg(r, "update"))
  \/ reqs[r].name = "insert" /\ UnusableDocuments(Arg(r, "documents"))
  \/ reqs[r].name = "createIndex" /\ UnusableIndexes(Arg(r, "indexes"))
  \/ reqs[r].name = "aggregate" /\ Arg(r, "pipeline").t # "array"

\* C5: the checks run in the order whitelist, read-only policy, collection,
\* handler validation; a request that violates several of them reports the
\* error of the earliest one it violates.
C5_EarliestCheckWins ==
  \A r \in Slots :
    Arrived(r) =>
      /\ \A i, j \in 1..Len(reqs[r].steps) :
           i < j => StepRank(reqs[r].steps[i]) < StepRank(reqs[r].steps[j])
      /\ ViolatesWhitelist(r) => FailedWith(r, "UnknownOperation")
      /\ (~ViolatesWhitelist(r) /\ ViolatesPolicy(r)) => FailedWith(r, "ReadOnlyViolation")
      /\ (~ViolatesWhitelist(r) /\ ~ViolatesPolicy(r) /\ ViolatesCollection(r))
           => (FailedWith(r, "MissingCollection") \/ FailedWith(r, "ForbiddenCollection"))
      /\ (~ViolatesWhitelist(r) /\ ~ViolatesPolicy(r) /\ ~ViolatesCollection(r)
            /\ ViolatesArguments(r))
           => (FailedWith(r, "InvalidArgument") /\ HandlerRan(r))
C5_Witness ==
  /\ isReadOnlyMode
  /\ reqs[1].name = "update"
  /\ Arg(1, "collection") = S("system.profile")
  /\ Arg(1, "update") = Undef
  /\ FailedWith(1, "ReadOnlyViolation")

HasFailedCall(r) == \E i \in 1..Len(reqs[r].calls) : reqs[r].calls[i].status = "failed"
BulkInsertFailure(r) == reqs[r].name = "insert" /\ reqs[r].caught.name = "BulkWriteError"
C6_FailureIsFinal ==
  \A r \in Slots :
    /\ \A i, j \in 1..Len(reqs[r].calls) :
         reqs[r].calls[i].method = reqs[r].calls[j].method => i = j
    /\ (HasFailedCall(r) /\ ~BulkInsertFailure(r))
         => /\ FailedWith(r, "GatewayFailure")
            /\ reqs[r].caught.isError
                 => Contains(reqs[r].outcome.error.message, reqs[r].caught.message)
C6_NoCallAfterFailure ==
  \A r \in Slots : HasFailedCall(r) => Len(reqs'[r].calls) <= Len(reqs[r].calls)

\* C6: no retry.  A request invokes each data-store operation at most once;
\* once one of its calls has failed (other than insertMany with a bulk write
\* error) the request is a failure that wraps the data store's error, and it
\* issues no further call.
C6_NoRetry == [](C6_FailureIsFinal) /\ [][C6_NoCallAfterFailure]_vars
C6_Witness ==
  /\ reqs[1].name = "serverInfo"
  /\ Arg(1, "includeDebugInfo") = B(TRUE)
  /\ Len(reqs[1].calls) = 1
  /\ reqs[1].calls[1].method = "command:buildInfo"
  /\ reqs[1].calls[1].status = "failed"
  /\ FailedWith(1, "GatewayFailure")

StatesOperation(message, name) ==
  \/ Contains(message, name)
  \/ name = "createIndex" /\ Contains(message, "create indexes")
  \/ name = "serverInfo" /\ Contains(message, "get server information")
  \/ name = "listCollections" /\ Contains(message, "list collections")
NamesCollection(message, r) ==
  (reqs[r].name \in CollectionOps /\ Truthy(Arg(r, "collection")))
    => Contains(message, Arg(r, "collection").s)

CountOr0(result, key) == IF GetProp(result, key) = Undef THEN N(0) ELSE GetProp(result, key)

\* C8: a bulk write error of insertMany ends the insert request as a success
\* whose payload is {error, writeErrors, insertedCount, failedCount}, the
\* counts being 0 when the error carries none; any other error of insertMany
\* ends it as a failure, and an error never ends a request of another
\* operation as a success.
C8_BulkWriteErrorIsPayload ==
  \A r \in Slots :
    reqs[r].caught # NoCaught =>
      IF reqs[r].name = "insert" /\ reqs[r].caught.isError
           /\ reqs[r].caught.name = "BulkWriteError"
      THEN /\ Succeeded(r)
           /\ DOMAIN reqs[r].outcome.payload
                = {"error", "writeErrors", "insertedCount", "failedCount"}
           /\ reqs[r].outcome.payload.writeErrors = reqs[r].caught.writeErrors
           /\ reqs[r].outcome.payload.insertedCount
                = CountOr0(reqs[r].caught.result, "nInserted")
           /\ reqs[r].outcome.payload.failedCount
                = CountOr0(reqs[r].caught.result, "nFailedInserts")
      ELSE reqs[r].outcome.kind = "failed"
C8_Witness ==
  /\ reqs[1].name = "insert"
  /\ reqs[1].caught = BareBulkError
  /\ Succeeded(1)
  /\ reqs[1].outcome.payload.insertedCount = N(0)
  /\ reqs[1].outcome.payload.failedCount = N(0)

RejectedBeforeCalls(r) == FailedWith(r, "InvalidArgument") /\ NoCalls(r)
UnusableElsewhere(r) ==
  \/ reqs[r].name = "insert" /\ UnusableDocuments(Arg(r, "documents"))
  \/ reqs[r].name = "createIndex" /\ UnusableIndexes(Arg(r, "indexes"))
  \/ reqs[r].name = "aggregate" /\ Arg(r, "pipeline").t # "array"

\* C9, as claimed: a request that reaches its handler with documents that is
\* not a non-empty array of plain objects (insert), with indexes that is not
\* a non-empty array, a writeConcern that is not a plain object or a
\* commitQuorum that is neither string nor number (createIndex), or with a
\* pipeline that is not an array (aggregate) fails with an invalid-argument
\* error and issues no data-store call.
C9_ValidationBeforeCalls ==
  \A r \in Slots :
    (HandlerRan(r)
       /\ \/ UnusableElsewhere(r)
          \/ /\ reqs[r].name = "createIndex"
             /\ \/ Arg(r, "writeConcern") # Undef /\ Arg(r, "writeConcern").t # "object"
                \/ /\ Arg(r, "commitQuorum") # Undef
                   /\ Arg(r, "commitQuorum").t \notin {"string", "number"})
      => RejectedBeforeCalls(r)

\* C9, amended: as claimed, but for createIndex only a writeConcern that is
\* truthy and not a plain object and a commitQuorum that is truthy and neither
\* string nor number are rejected.
C9_TruthyValidationBeforeCalls ==
  \A r \in Slots :
    (HandlerRan(r)
       /\ \/ UnusableElsewhere(r)
          \/ /\ reqs[r].name = "createIndex"
             /\ \/ Truthy(Arg(r, "writeConcern")) /\ Arg(r, "writeConcern").t # "object"
                \/ /\ Truthy(Arg(r, "commitQuorum"))
                   /\ Arg(r, "commitQuorum").t \notin {"string", "number"})
      => RejectedBeforeCalls(r)
C9_Witness ==
  /\ reqs[1].name = "createIndex"
  /\ Arg(1, "indexes") = A(<<IndexSpec>>)
  /\ Arg(1, "writeConcern") = S("majority")
  /\ HandlerRan(1)
  /\ RejectedBeforeCalls(1)

\* C10: an update request issues updateOne or updateMany only if its update
\* argument is a non-array object with a top-level key among the nine update
\* operators; with any other update argument the handler fails with an
\* invalid-argument error and issues no call.
C10_UpdateNeedsOperator ==
  \A r \in Slots :
    (Arrived(r) /\ reqs[r].name = "update") =>
      /\ ~NoCalls(r)
           => /\ UsableUpdate(Arg(r, "update"))
              /\ reqs[r].calls[1].method \in {"updateOne", "updateMany"}
      /\ (HandlerRan(r) /\ ~UsableUpdate(Arg(r, "update"))) => RejectedBeforeCalls(r)
C10_Witness ==
  /\ reqs[1].name = "update"
  /\ Arg(1, "collection") = S("users")
  /\ Arg(1, "update") = O(<< <<"foo", S("bar")>> >>)
  /\ HandlerRan(1)
  /\ RejectedBeforeCalls(1)

\* C11: an update request without a filter argument is rejected and never
\* reaches updateOne or updateMany.
C11_UpdateRequiresFilter ==
  \A r \in Slots :
    (Arrived(r) /\ reqs[r].name = "update" /\ Arg(r, "filter") = Undef)
      => (reqs[r].outcome.kind = "failed" /\ NoCalls(r))

ValidUpdateRequest(r) ==
  /\ Arrived(r)
  /\ reqs[r].name = "update"
  /\ HandlerRan(r)
  /\ UsableUpdate(Arg(r, "update"))
  /\ Arg(r, "filter").t \in {"undefined", "object"}

\* C12: a valid update request issues exactly one write call, updateMany if
\* multi is truthy and updateOne otherwise; upsert is passed as true exactly
\* when the request sets it truthy; the success payload is matchedCount,
\* modifiedCount, upsertedCount and upsertedId of the call's result.
C12_UpdateMethodAndPayload ==
  \A r \in Slots :
    ValidUpdateRequest(r) =>
      /\ Len(reqs[r].calls) = 1
      /\ reqs[r].calls[1].method
           = (IF Truthy(Arg(r, "multi")) THEN "updateMany" ELSE "updateOne")
      /\ reqs[r].calls[1].params.options.upsert = Truthy(Arg(r, "upsert"))
      /\ Succeeded(r) =>
           /\ DOMAIN reqs[r].outcome.payload
                = {"matchedCount", "modifiedCount", "upsertedCount", "upsertedId"}
           /\ \A f \in DOMAIN reqs[r].outcome.payload :
                reqs[r].outcome.payload[f] = reqs[r].calls[1].result[f]
C12_Witness ==
  /\ reqs[1].name = "update"
  /\ Arg(1, "multi") = B(TRUE)
  /\ Arg(1, "upsert") = Undef
  /\ Succeeded(1)
  /\ reqs[1].calls[1].method = "updateMany"
  /\ reqs[1].outcome.payload.matchedCount = 1

(***************************************************************************)
(* Properties of the filter processor, on ProbeSpec.                       *)
(***************************************************************************)
Normalized == probe.pc = "done" /\ probe.fn = "processObjectIdInFilter"
HasKey(obj, key) == obj.t = "object" /\ \E i \in 1..Len(obj.o) : obj.o[i][1] = key
Leaf(key, str, out, place) == [key |-> key, str |-> str, out |-> out, place |-> place]
ElementLeaves(key, in, out) ==
  {Leaf(key, in.a[j].s, out.a[j], "element") :
     j \in {j \in 1..Len(in.a) : out.t = "array" /\ j <= Len(out.a) /\ in.a[j].t = "string"}}
\* the string leaves of the input the processor reaches, each with the value
\* the output holds in its place: the values of the keys of the filter and
\* of the objects nested in it by keys, and the elements of arrays at a key.
\* A key the output does not have contributes nothing.
RECURSIVE KeptLeaves(_, _)
KeptLeaves(in, out) ==
  UNION {LET key == in.o[i][1]
             value == in.o[i][2]
         IN  CASE value.t = "string" -> {Leaf(key, value.s, GetProp(out, key), "value")}
               [] value.t = "array" -> ElementLeaves(key, value, GetProp(out, key))
               [] value.t = "object" -> KeptLeaves(value, GetProp(out, key))
               [] OTHER -> {}
         : i \in {i \in 1..Len(in.o) : HasKey(out, in.o[i][1])}}
\* the identifiers anywhere in a tree
RECURSIVE ObjectIds(_)
ObjectIds(tree) ==
  CASE tree.t = "objectid" -> {tree.hex}
    [] tree.t = "object" -> UNION {ObjectIds(tree.o[i][2]) : i \in 1..Len(tree.o)}
    [] tree.t = "array" -> UNION {ObjectIds(tree.a[i]) : i \in 1..Len(tree.a)}
    [] OTHER -> {}
ExactlyHex24(str) ==
  /\ Len(str) = 24
  /\ \A i \in 1..24 : SubSeq(str, i, i) \in
       {"0", "1", "2", "3", "4", "5", "6", "7", "8", "9",
        "a", "b", "c", "d", "e", "f", "A", "B", "C", "D", "E", "F"}
IdLikeKey(lowered) == lowered = "_id" \/ lowered = "id" \/ EndsWith(lowered, "id")
ConvertsIn(mode, key) == mode = "force" \/ (mode = "auto" /\ IdLikeKey(ToLowerCase(key)))

C14_DatesConverted ==
  Normalized =>
    \A l \in KeptLeaves(probe.input, probe.output) :
      /\ l.str \in {Samples.isoSeconds, Samples.isoMillis} => l.out = DateOf(l.str)
      /\ l.str = Samples.wrappedIso => l.out = DateOf(Samples.isoSeconds)

\* C15: a string ISODate(...) whose inner literal is not a strict ISO-8601
\* date is returned as it was given, in every mode, as an object value and
\* as an array element.
C15_InvalidWrapperUnchanged ==
  Normalized =>
    \A l \in KeptLeaves(probe.input, probe.output) :
      l.str \in {Samples.wrappedNotDate, Samples.wrappedUnquoted} => l.out = S(l.str)

RECURSIVE SameShape(_, _)
SameShape(in, out) ==
  CASE in.t = "object" ->
         /\ out.t = "object"
         /\ Len(out.o) = Len(in.o)
         /\ \A i \in 1..Len(in.o) :
              /\ out.o[i][1] = in.o[i][1]
              /\ SameShape(in.o[i][2], out.o[i][2])
    [] in.t = "array" ->
         /\ out.t = "array"
         /\ Len(out.a) = Len(in.a)
         /\ \A j \in 1..Len(in.a) : SameShape(in.a[j], out.a[j])
    [] in.t = "string" -> out.t \in {"string", "objectid", "date"}
    [] OTHER -> out = in

\* C16: in every mode the output of the processor has the keys of the input
\* at every object, the length of the input at every array and the nesting
\* of the input; only string leaves may change type.
C16_ShapePreserved == Normalized => SameShape(probe.input, probe.output)

\* in is normalized into out at every depth; key is the nearest key above.
\* A key the output does not have is passed over.
RECURSIVE EveryLeafNormalized(_, _, _, _)
EveryLeafNormalized(in, out, key, mode) ==
  CASE in.t = "string" -> out = NormalizeItem(in, key, mode)
    [] in.t = "object" ->
         \A i \in 1..Len(in.o) :
           HasKey(out, in.o[i][1]) =>
             EveryLeafNormalized(in.o[i][2], GetProp(out, in.o[i][1]), in.o[i][1], mode)
    [] in.t = "array" ->
         /\ out.t = "array"
         /\ Len(out.a) = Len(in.a)
         /\ \A j \in 1..Len(in.a) : EveryLeafNormalized(in.a[j], out.a[j], key, mode)
    [] OTHER -> TRUE

\* C17: every string leaf of the tree is normalized at every nesting depth,
\* the strings inside objects that are elements of an array and the strings
\* inside arrays nested in arrays included.
C17_EveryLeafNormalized ==
  Normalized => EveryLeafNormalized(probe.input, probe.output, "", probe.mode)

FilterParsed == probe.pc = "done" /\ probe.fn = "parseFilter"
Rejected(p) == p.error.kind = "InvalidArgument" /\ p.output = Undef

\* C18: parseFilter returns the empty filter for undefined, null, false, 0 and
\* the empty string, the normalized filter for a plain object, and fails with
\* an invalid-argument error for an array, for true, for a non-zero number
\* and for a string that is not valid JSON.
C18_ParseFilterCases ==
  FilterParsed =>
    /\ probe.input \in {Undef, Null, B(FALSE), N(0), S("")}
         => (probe.error = NoError /\ probe.output = O(<<>>))
    /\ probe.input.t = "object"
         => /\ probe.error = NoError
            /\ probe.output = processObjectIdInFilter(probe.input, probe.mode)
    /\ (\/ probe.input.t = "array"
        \/ probe.input = B(TRUE)
        \/ (probe.input.t = "number" /\ probe.input.n # 0))
         => Rejected(probe)
    /\ (probe.input.t = "string" /\ probe.input.s \in BrokenJsonTexts)
         => Rejected(probe)
C18_Witness ==
  /\ FilterParsed
  /\ probe.input = A(<<NameIsA>>)
  /\ probe.error = Err("InvalidArgument", "Query filter must be a plain object or ObjectId")

(***************************************************************************)
(* Properties of the query handler, on Spec.                               *)
(***************************************************************************)
ValidQuery(r) ==
  /\ Arrived(r)
  /\ reqs[r].name = "query"
  /\ HandlerRan(r)
  /\ Arg(r, "filter").t \in {"undefined", "object"}
Explained(r) == Arg(r, "explain") \notin {Undef, Null, B(FALSE), S(""), N(0)}
GivenOr(v, default) == IF v \in {Undef, Null, N(0)} THEN default ELSE v.n
\* the number of documents of the request's collection, as it was first,
\* that have every field of the request's filter
MatchCount(r) ==
  LET docs == InitialDb[Arg(r, "collection").s].docs
      filter == IF Arg(r, "filter") = Undef THEN O(<<>>) ELSE Arg(r, "filter")
  IN  Cardinality({k \in 1..Len(docs) :
                     \A i \in 1..Len(filter.o) :
                       GetProp(docs[k], filter.o[i][1]) = filter.o[i][2]})
Metadata(r) == reqs[r].outcome.payload.metadata

\* C19: a successful query without explain returns metadata {total, returned,
\* skip, limit, hasMore} with limit 10 and skip 0 when not given, returned
\* the number of results and hasMore true exactly when skip + returned <
\* total; while the collection does not change, total is the number N of
\* matching documents and returned = min(limit, max(0, N - skip)).
C19_QueryMetadata ==
  \A r \in Slots :
    (ValidQuery(r) /\ ~Explained(r) /\ Succeeded(r)) =>
      /\ DOMAIN reqs[r].outcome.payload = {"results", "metadata"}
      /\ DOMAIN Metadata(r) = {"total", "returned", "skip", "limit", "hasMore"}
      /\ Metadata(r).limit = GivenOr(Arg(r, "limit"), 10)
      /\ Metadata(r).skip = GivenOr(Arg(r, "skip"), 0)
      /\ Metadata(r).returned = Len(reqs[r].outcome.payload.results)
      /\ Metadata(r).hasMore = (Metadata(r).skip + Metadata(r).returned < Metadata(r).total)
      /\ writes = 0 =>
           /\ Metadata(r).total = MatchCount(r)
           /\ Metadata(r).returned
                = Min(Metadata(r).limit, Max(0, MatchCount(r) - Metadata(r).skip))
C19_Witness ==
  /\ ValidQuery(1) /\ Succeeded(1)
  /\ Arg(1, "collection") = S("events")
  /\ Arg(1, "limit") = N(5)
  /\ Arg(1, "skip") = N(10)
  /\ Arg(1, "explain") = Undef
  /\ Metadata(1).total = 12
  /\ Metadata(1).returned = 2
  /\ Metadata(1).hasMore = FALSE

\* C20: a query with explain set issues exactly one data-store call, the find
\* explained at the requested verbosity, never countDocuments, and returns
\* the explanation alone; a query without explain never issues an explain
\* call.
C20_ExplainAlone ==
  \A r \in Slots :
    ValidQuery(r) =>
      IF Explained(r)
      THEN /\ Len(reqs[r].calls) = 1
           /\ reqs[r].calls[1].method = "find.explain"
           /\ reqs[r].calls[1].params.verbosity = Arg(r, "explain")
           /\ Succeeded(r) =>
                /\ reqs[r].outcome.payload = reqs[r].calls[1].result
                /\ DOMAIN reqs[r].outcome.payload \cap {"results", "metadata"} = {}
      ELSE \A i \in 1..Len(reqs[r].calls) : reqs[r].calls[i].method # "find.explain"
C20_Witness ==
  /\ ValidQuery(1) /\ Succeeded(1)
  /\ Arg(1, "explain") = S("executionStats")
  /\ Len(reqs[1].calls) = 1
  /\ reqs[1].calls[1].params.verbosity = S("executionStats")

(***************************************************************************)
(* Properties of the two concurrent calls of a query, on QuerySpec.        *)
(***************************************************************************)
PlainQuery(r) == ValidQuery(r) /\ ~Explained(r)
Statuses(r) == {reqs[r].calls[i].status : i \in 1..Len(reqs[r].calls)}
C21_BothIssuedAndJoined ==
  \A r \in Slots :
    PlainQuery(r) =>
      /\ Len(reqs[r].calls) = 2
      /\ {reqs[r].calls[1].method, reqs[r].calls[2].method} = {"countDocuments", "find"}
      /\ Succeeded(r) => Statuses(r) = {"ok"}
      /\ "failed" \in Statuses(r) => FailedWith(r, "GatewayFailure")
      /\ Statuses(r) = {"ok"} => Succeeded(r)
C21_OutcomeIsTerminal ==
  \A r \in Slots :
    (PlainQuery(r) /\ reqs[r].outcome # NoOutcome /\ reqs'[r].pc # "idle")
      => reqs'[r].outcome = reqs[r].outcome

\* C21: a query without explain issues countDocuments and find together,
\* before either completes; it succeeds only when both have completed
\* successfully, in either order; if either fails it fails, and the later
\* completion of the other call never changes that outcome.
C21_ConcurrentCountAndFind ==
  [](C21_BothIssuedAndJoined) /\ [][C21_OutcomeIsTerminal]_vars
C21_Witness ==
  /\ PlainQuery(1)
  /\ CallOf(reqs[1], "find").status = "failed"
  /\ CallOf(reqs[1], "countDocuments").status = "ok"
  /\ FailedWith(1, "GatewayFailure")

(***************************************************************************)
(* Properties of listCollections and serverInfo, on OptionsSpec.           *)
(***************************************************************************)
Listed(r) == Succeeded(r) /\ reqs[r].name = "listCollections"
\* what the data store listed for the request, as the response shows it
ListedItems(r) ==
  [k \in 1..Len(reqs[r].calls[1].result) |->
     IF Arg(r, "nameOnly") = B(TRUE) THEN GetProp(reqs[r].calls[1].result[k], "name")
     ELSE reqs[r].calls[1].result[k]]

\* C22: listCollections, with skip 0 and limit 20 when not given, returns as
\* results the items skip+1 .. skip+returned of the listed collections (the
\* names only when nameOnly is set) and metadata with total the number
\* listed, returned = min(limit, max(0, total - skip)) and hasMore true
\* exactly when skip + returned < total.  A page with hasMore is full, so the
\* call with skip + limit continues right behind it, and a page without
\* hasMore reaches the end of the list: the successive pages hold every
\* collection once.
C22_ListCollectionsPages ==
  \A r \in Slots :
    Listed(r) =>
      /\ Metadata(r).skip = GivenOr(Arg(r, "skip"), 0)
      /\ Metadata(r).limit = GivenOr(Arg(r, "limit"), 20)
      /\ Metadata(r).total = Len(ListedItems(r))
      /\ Metadata(r).returned
           = Min(Metadata(r).limit, Max(0, Metadata(r).total - Metadata(r).skip))
      /\ Metadata(r).hasMore = (Metadata(r).skip + Metadata(r).returned < Metadata(r).total)
      /\ reqs[r].outcome.payload.results
           = [k \in 1..Metadata(r).returned |-> ListedItems(r)[Metadata(r).skip + k]]
      /\ Metadata(r).hasMore => Metadata(r).returned = Metadata(r).limit
      /\ (~Metadata(r).hasMore /\ Metadata(r).skip <= Metadata(r).total)
           => Metadata(r).skip + Metadata(r).returned = Metadata(r).total
C22_Witness ==
  /\ Listed(1)
  /\ Arg(1, "skip") = N(0)
  /\ Arg(1, "limit") = N(1)
  /\ Arg(1, "nameOnly") = B(TRUE)
  /\ \A c \in StoreColls : db[c].exists
  /\ reqs[1].outcome.payload.results = <<S("users")>>
  /\ Metadata(1).total = 3
  /\ Metadata(1).hasMore

ServerInfoAsked(r) == Arrived(r) /\ reqs[r].name = "serverInfo"
DebugAsked(r) == Arg(r, "includeDebugInfo") \notin {Undef, Null, B(FALSE), N(0), S("")}

\* C23: serverInfo runs in read-only mode as in read-write mode and issues
\* the buildInfo command first; it issues the serverStatus command exactly
\* when includeDebugInfo is truthy, and then only once buildInfo has
\* succeeded; every successful response carries connectionInfo with
\* readOnlyMode the configured flag and readPreference "secondary" when
\* read-only, "primary" otherwise.
C23_ServerInfoCommands ==
  \A r \in Slots :
    ServerInfoAsked(r) =>
      /\ HandlerRan(r)
      /\ Len(reqs[r].calls) \in {1, 2}
      /\ reqs[r].calls[1].method = "command:buildInfo"
      /\ Len(reqs[r].calls) = 2
           <=> (DebugAsked(r) /\ reqs[r].calls[1].status = "ok")
      /\ Len(reqs[r].calls) = 2 => reqs[r].calls[2].method = "command:serverStatus"
      /\ Succeeded(r) =>
           /\ \A i \in 1..Len(reqs[r].calls) : reqs[r].calls[i].status = "ok"
           /\ reqs[r].outcome.payload.connectionInfo
                = [readOnlyMode |-> isReadOnlyMode,
                   readPreference |-> IF isReadOnlyMode THEN "secondary" ELSE "primary"]
C23_Witness ==
  /\ ServerInfoAsked(1)
  /\ isReadOnlyMode
  /\ Arg(1, "includeDebugInfo") = S("yes")
  /\ Succeeded(1)
  /\ Len(reqs[1].calls) = 2
  /\ reqs[1].outcome.payload.connectionInfo.readPreference = "secondary"

(***************************************************************************)
(* Properties of the conversion mode, on OptionsSpec.                      *)
(***************************************************************************)
\* the request of slot r carries the document ModeDoc in its arguments
CarriesModeDoc(r) ==
  /\ Arrived(r)
  /\ HandlerRan(r)
  /\ \/ ModeDoc \in {Arg(r, "filter"), Arg(r, "query")}
     \/ A(<<ModeDoc>>) \in {Arg(r, "documents"), Arg(r, "indexes")}
     \/ Arg(r, "pipeline") = A(<< O(<< <<"$match", ModeDoc>> >>) >>)
OwnMode(r) == IF Arg(r, "objectIdMode") = Undef THEN "auto" ELSE Arg(r, "objectIdMode").s
\* the 24-digit string under a key, as the mode leaves it
IdUnder(mode, idLike) ==
  IF mode = "force" \/ (mode = "auto" /\ idLike) THEN ObjectIdOf(Samples.hex24)
  ELSE S(Samples.hex24)
\* ModeDoc with one mode applied at both nesting levels
ModeDocIn(mode) ==
  O(<< <<"userId", IdUnder(mode, TRUE)>>,
       <<"meta", O(<< <<"ownerId", IdUnder(mode, TRUE)>>,
                      <<"note", IdUnder(mode, FALSE)>> >>)>> >>)
\* what a data-store call of request r was given in place of ModeDoc
GivenToStore(c) ==
  CASE c.method \in {"find", "countDocuments"} -> <<c.params.filter>>
    [] c.method \in {"updateOne", "updateMany"} ->
         <<c.params.filter, GetProp(c.params.update, "$set")>>
    [] c.method = "insertMany" -> c.params.documents
    [] c.method = "createIndexes" -> c.params.indexes
    [] c.method = "aggregate" -> <<GetProp(c.params.pipeline.a[1], "$match")>>
    [] OTHER -> <<>>
\* a request in flight keeps its mode, its arguments and what its calls were
\* given, whatever step is taken
C25_ModeIsStable ==
  \A r \in Slots :
    (Arrived(r) /\ reqs'[r].pc # "idle") =>
      /\ reqs'[r].objectIdMode = reqs[r].objectIdMode
      /\ reqs'[r].arguments = reqs[r].arguments
      /\ \A i \in 1..Len(reqs[r].calls) :
           reqs'[r].calls[i].params = reqs[r].calls[i].params
C25_OwnModeEverywhere ==
  \A r \in Slots :
    CarriesModeDoc(r) =>
      /\ reqs[r].objectIdMode = OwnMode(r)
      /\ reqs[r].calls # <<>>
      /\ \A i \in 1..Len(reqs[r].calls) :
           /\ GivenToStore(reqs[r].calls[i]) # <<>>
           /\ \A k \in 1..Len(GivenToStore(reqs[r].calls[i])) :
                GivenToStore(reqs[r].calls[i])[k] = ModeDocIn(OwnMode(r))

\* C25: the conversion mode belongs to one request: it is auto when the
\* request names none, and every filter, update document, pipeline stage,
\* inserted document and index spec the request hands the data store is
\* converted under that one mode at each nesting level, whatever requests
\* with other modes and arguments are in flight next to it.
C25_ModeScopedToRequest == [](C25_OwnModeEverywhere) /\ [][C25_ModeIsStable]_vars
C25_Witness ==
  /\ reqs[1].name = "insert"
  /\ reqs[1].pc = "awaiting"
  /\ reqs[1].objectIdMode = "force"
  /\ reqs[1].calls[1].params.documents = <<ModeDocIn("force")>>
  /\ ModeDocIn("force") # ModeDocIn("auto")
  /\ reqs[2].name = "count"
  /\ reqs[2].pc = "awaiting"
  /\ reqs[2].objectIdMode = "none"
  /\ reqs[2].calls[1].params.filter = ModeDoc

(***************************************************************************)
(* Properties of the sort option, on QuerySpec.                            *)
(***************************************************************************)
SortAsked(r) == ValidQuery(r) /\ Arg(r, "sort") # Undef
\* the entries of the requested sort whose value is 1 or -1, or null when
\* the requested sort is no plain object or has no such entry
ValidatedSort(sort) ==
  IF sort.t = "object" /\ \E i \in 1..Len(sort.o) : sort.o[i][2] \in {N(1), N(-1)}
  THEN O(SelectSeq(sort.o, LAMBDA e : e[2] \in {N(1), N(-1)}))
  ELSE Null

\* C26: the sort that the query handler passes to find is the validated
\* sort: the entries of the requested sort whose value is the number 1 or
\* -1, and null when the requested sort is not a plain object or has no
\* such entry; the raw sort value does not reach the data store.
C26_SortValidated ==
  \A r \in Slots :
    SortAsked(r) =>
      \A i \in 1..Len(reqs[r].calls) :
        reqs[r].calls[i].method \in {"find", "find.explain"} =>
          reqs[r].calls[i].params.options.sort = ValidatedSort(Arg(r, "sort"))

(***************************************************************************)
(* Properties of parseFilter on JSON texts, on ProbeSpec.                  *)
(***************************************************************************)
\* parseFilter has returned or thrown on a string that is a valid JSON text
ParsedJsonText ==
  /\ probe.pc = "done"
  /\ probe.fn = "parseFilter"
  /\ probe.input.t = "string"
  /\ JSONParse(probe.input.s).ok
SameAsDirect(direct) ==
  /\ (probe.error = NoError) <=> (direct.error = NoError)
  /\ probe.error = NoError => probe.output = direct.v
  /\ probe.error # NoError => probe.error.kind = "InvalidArgument"

\* C27: for a string that is a valid JSON text, parseFilter succeeds exactly
\* when parseFilter of the parsed value succeeds, and returns the same
\* filter: a text of a top-level array or of a non-zero number is rejected
\* with an invalid-argument error and the text null gives the empty filter.
C27_JsonTextAsItsValue ==
  ParsedJsonText => SameAsDirect(parseFilter(JSONParse(probe.input.s).v, probe.mode))

(***************************************************************************)
(* Properties of a query next to writes, on QuerySpec.                     *)
(***************************************************************************)
\* C28: in every successful query response the metadata agrees with the
\* results, also when another request writes to the collection while the
\* query is in flight: returned <= max(0, total - skip), so that the page
\* lies within the documents that were counted and a response without
\* hasMore ends where the matching documents end.
C28_MetadataAgreesWithResults ==
  \A r \in Slots :
    (PlainQuery(r) /\ Succeeded(r)) =>
      /\ Metadata(r).returned = Len(reqs[r].outcome.payload.results)
      /\ Metadata(r).returned <= Max(0, Metadata(r).total - Metadata(r).skip)

(***************************************************************************)
(* Properties of cursor pagination, on FairPagingSpec.                     *)
(***************************************************************************)
Paging == probe.fn = "paginate"
\* the pages read so far are the front of the list, and the cursor of the
\* last page points right behind them
PagesAreAFront ==
  Paging =>
    /\ probe.output.items = SubSeq(probe.input.items, 1, Len(probe.output.items))
    /\ probe.pc = "paging" =>
         /\ probe.output.nextCursor = S(encodeCursor(Len(probe.output.items)))
         /\ Len(probe.output.items) < Len(probe.input.items)
    /\ probe.pc = "done" => probe.output.items = probe.input.items
RoundTrip ==
  (probe.fn = "encodeCursor" /\ probe.pc = "done") => probe.output = probe.input
DecodedOrZero ==
  (probe.fn = "decodeCursor" /\ probe.pc = "done") =>
    /\ ~probe.input.valid => probe.output = N(0)
    /\ probe.input.cursor \in {S("eyJvZmZzZXQiOjIwfQ=="), S("eyJvZmZzZXQiOjIwfQ")}
         => probe.output = N(20)

\* C29: over a fixed list and a page size of at least 1, calling paginate
\* first without a cursor and then with each returned nextCursor comes to an
\* end, and the pages put together are exactly the list, in order;
\* decodeCursor(encodeCursor(n)) = n for n >= 0, and decodeCursor returns 0
\* for a cursor that is undefined, empty, not decodable or of negative
\* offset.
C29_PagesCoverTheList ==
  /\ [](PagesAreAFront /\ RoundTrip /\ DecodedOrZero)
  /\ (Paging ~> (probe.pc = "done"))
C29_Witness ==
  /\ Paging
  /\ probe.pc = "done"
  /\ Len(probe.input.items) = MaxItems
  /\ probe.input.pageSize = N(2)
  /\ probe.output.pages = (MaxItems + 1) \div 2
  /\ probe.output.pages > 1
  /\ probe.output.items = probe.input.items
  /\ encodeCursor(20) = "eyJvZmZzZXQiOjIwfQ=="

(***************************************************************************)
(* Properties of cancellation, on CancelSpec.                              *)
(***************************************************************************)
ToolRequest(r) == Arrived(r) /\ reqs[r].name \in KnownOps
ResourceRead(r) == Arrived(r) /\ reqs[r].name = "resources/read"
\* a request whose signal is aborted issues no data-store call
NoCallOnceAborted(r) ==
  (reqs[r].aborted /\ reqs'[r].pc # "idle") => Len(reqs'[r].calls) = Len(reqs[r].calls)

\* C24: when the signal of a tool request is aborted, the request issues no
\* data-store call after it and ends with a Cancelled failure, not with
\* the result of its data-store calls and not with a data-store error.
C24_CancellationObserved ==
  /\ [](\A r \in Slots :
          (ToolRequest(r) /\ reqs[r].aborted /\ reqs[r].pc = "done")
            => FailedWith(r, "Cancelled"))
  /\ [][\A r \in Slots : ToolRequest(r) => NoCallOnceAborted(r)]_vars

\* C30: once its signal is aborted a resource read issues no further
\* data-store call, and the read ends in failure at whichever check sees
\* the abort: before the $sample aggregation, before the fallback find,
\* before indexes, before countDocuments or before collStats; no schema is
\* returned by a read that went on to a data-store call after the abort.
C30_AbortEndsTheRead ==
  /\ [](\A r \in Slots :
          (ResourceRead(r) /\ reqs[r].pc = "done" /\ reqs[r].steps # <<>>)
            => reqs[r].outcome.kind = "failed")
  /\ [][\A r \in Slots : ResourceRead(r) => NoCallOnceAborted(r)]_vars

====
